---- MODULE Spec2Model ----
(***************************************************************************)
(* A model of the diffusion-garden canvas: the zustand graph store         *)
(* (frontend/src/store/canvasStore.ts), the run queue drained by the block *)
(* components (BaseBlockNode) and the text job lifecycle (TextBlockNode,   *)
(* api/client jobsApi).                                                    *)
(*                                                                         *)
(* Node ids are the integers handed out by generateId (never reused), job  *)
(* ids number the jobs of one block in request order.  A node keeps the    *)
(* data fields the store and the job client read or write; position,      *)
(* title, model and the React Flow `selected` flag are rendering state     *)
(* and are left out.                                                       *)
(***************************************************************************)
EXTENDS Integers, Sequences, FiniteSets, TLC

VARIABLES
    nodes,            \* store.nodes: sequence of node records, creation order
    edges,            \* store.edges: sequence of [source, target], insertion order
    selectedNodeIds,  \* store.selectedNodeIds
    nodesToRun,       \* store.nodesToRun (the run queue)
    nextId,           \* number of ids generateId has handed out so far
    jobs,             \* the text jobs each block has asked of the server, in
                      \* request order: the job's status and its event stream
    cleanupRef,       \* streamCleanupFunctionRef.current of each block: the job
                      \* whose stream the cleanup closes, NoJob for null
    autoRunTriggered, \* hasAutoRunTriggered.current of each block
    cancelCalls,      \* the jobs of each block with a cancelJob request awaited
    cancelInvoked,    \* history: the jobs of each block handleCancel was aimed at
    jobRecoveryAttempted, \* jobRecoveryAttemptedRef.current of each block
    recoveryCleanupRef,   \* recoveryCleanupRef.current of each block: the job
                          \* whose recovery stream it closes, NoJob for null
    recoveryCleanupArmed, \* the recovery effect of the block has returned a
                          \* cleanup that has not run yet
    recoveryFetches,      \* the jobs of each block with a getJob request awaited
    recoveryFetched,      \* history: getJob requests each block has issued
    recoverySubscribed,   \* history: streams each block's recovery has opened
    saved,            \* the nodes of the document last written by saveCanvas
    autoRuns,         \* history: runs the auto-run effect of each block started
    drained,          \* history: runs each block started from the run queue
                      \* since the last requestRunForNodes
    requested,        \* history: the ids of the last requestRunForNodes
    held,             \* history: the ids of the last requestRunForNodes whose
                      \* blocks were running when it was made and have not
                      \* left the queue by their effect since
    last              \* the handler that made the last step and what it did

storeVars == <<nodes, edges, selectedNodeIds, nodesToRun, nextId>>
jobVars == <<jobs, cleanupRef, autoRunTriggered, cancelCalls, cancelInvoked>>
queueVars == <<drained, requested, held>>
recoveryVars == <<jobRecoveryAttempted, recoveryCleanupRef, recoveryCleanupArmed,
                  recoveryFetches, recoveryFetched, recoverySubscribed>>
persistVars == <<saved, autoRuns>>
vars == <<storeVars, jobVars, queueVars, recoveryVars, persistVars, last>>

(* ----------------------------- bounds ---------------------------------- *)

MaxNodes == 3         \* ids generateId may hand out in one behaviour
MaxEdges == 2         \* length of store.edges
MaxBlocks == 2        \* blocks on the canvas where runs are cancelled
MaxQueued == 3        \* blocks on the canvas where only the queue runs them
MaxJobs == 2          \* createTextJob calls in one behaviour
MaxFetches == 2       \* getJob calls of one block in one behaviour
MaxLoaded == 4        \* nodes of a loaded document whose lineage is read
MaxLoadedEdges == 4   \* edges of such a document

(* ----------------------------- values ---------------------------------- *)

NoJob == 0            \* data.jobId === undefined
NoError == "none"     \* data.error === undefined

NodeIds == 1..MaxNodes
JobIds == 1..MaxJobs

\* what the stream of a text job delivers
ChunkTexts == {"Hel", "Hello"}
DoneText == "Hello world"
JobError == "boom"
\* the messages an error event of the stream may carry
JobErrors == {JobError, "quota"}

\* data of the blocks that are run: the prompt set or empty, autoRun on or off
JobData == { [content |-> "", prompt |-> p, autoRun |-> a] :
               p \in {"", "p"}, a \in BOOLEAN }

\* data of the blocks the run queue is tried on: no autoRun
QueueData == { d \in JobData : ~d.autoRun }

\* data of blocks that can be run: a prompt, no autoRun
RunnableData == { d \in QueueData : d.prompt # "" }

\* prompts typed into the prompt field: empty, whitespace only, or text
Prompts == {"", " ", "p"}

\* data of the blocks whose prompt is edited: some content shown, the prompt
\* set or empty, autoRun on or off
PromptData == { [content |-> "Hello", prompt |-> p, autoRun |-> a] :
                  p \in {"", "p"}, a \in BOOLEAN }

\* String.prototype.trim on the prompts and contents the model uses
Trim(str) == IF str \in {"", " "} THEN ""
             ELSE IF str = " p " THEN "p"
             ELSE IF str = " Hi " THEN "Hi"
             ELSE str

\* data handed to addTextBlock when a block is created from the toolbar
GraphData == { [content |-> "Hello", prompt |-> "", autoRun |-> FALSE] }

(* ----------------------------- helpers --------------------------------- *)

Range(s) == { s[i] : i \in DOMAIN s }

\* Array.prototype.includes
Includes(s, x) == \E i \in DOMAIN s : s[i] = x

\* ids of the nodes in the store, in store order
NodeIdSeq == [ i \in DOMAIN nodes |-> nodes[i].id ]

NodeIdSet == { nodes[i].id : i \in DOMAIN nodes }

\* the node with the given id in a node sequence
NodeIn(ns, id) == ns[CHOOSE i \in DOMAIN ns : ns[i].id = id]

\* nodes.find((n) => n.id === id)
NodeOf(id) == nodes[CHOOSE i \in DOMAIN nodes : nodes[i].id = id]

\* `edge-${source}-${target}`
EdgeId(e) == <<"edge", e.source, e.target>>

(* ------------------- wouldCreateCycle (DFS) ---------------------------- *)

\* keys of the adjacency Map in insertion order: each edge source at its first
\* occurrence, then the proposed source when it is new
RECURSIVE AdjKeys(_, _)
AdjKeys(es, acc) ==
    IF es = <<>> THEN acc
    ELSE AdjKeys(Tail(es), IF Includes(acc, Head(es).source) THEN acc
                           ELSE Append(acc, Head(es).source))

\* adjacency.get(node) || []  over the existing edges plus the proposed one
Neighbors(es, node) ==
    LET mine == SelectSeq(es, LAMBDA e : e.source = node)
    IN  [ i \in DOMAIN mine |-> mine[i].target ]

\* hasCycle(node): st carries the visited and recursionStack sets
RECURSIVE HasCycle(_, _, _)
RECURSIVE HasCycleFrom(_, _, _, _)
HasCycle(es, node, st) ==
    HasCycleFrom(es, node, 1,
                 [visited |-> st.visited \cup {node},
                  stack   |-> st.stack \cup {node},
                  found   |-> FALSE])

\* hasCycle's loop without the `else if (recursionStack.has(neighbor))` arm
RECURSIVE HasCycleFromNoStack(_, _, _, _)
HasCycleFromNoStack(es, node, i, st) ==
    LET nb == Neighbors(es, node)
    IN  IF i > Len(nb)
        THEN [st EXCEPT !.stack = @ \ {node}]
        ELSE IF nb[i] \notin st.visited
             THEN LET r == HasCycle(es, nb[i], st)
                  IN  IF r.found THEN r ELSE HasCycleFromNoStack(es, node, i + 1, r)
             ELSE HasCycleFromNoStack(es, node, i + 1, st)

\* hasCycle's loop reporting a cycle at every neighbor seen before, on the
\* recursion stack or not
RECURSIVE HasCycleFromVisited(_, _, _, _)
HasCycleFromVisited(es, node, i, st) ==
    LET nb == Neighbors(es, node)
    IN  IF i > Len(nb)
        THEN [st EXCEPT !.stack = @ \ {node}]
        ELSE IF nb[i] \notin st.visited
             THEN LET r == HasCycle(es, nb[i], st)
                  IN  IF r.found THEN r ELSE HasCycleFromVisited(es, node, i + 1, r)
             ELSE [st EXCEPT !.found = TRUE]

\* the for-loop over neighbors, from index i
HasCycleFrom(es, node, i, st) ==
    LET nb == Neighbors(es, node)
    IN  IF i > Len(nb)
        THEN [st EXCEPT !.stack = @ \ {node}]
        ELSE IF nb[i] \notin st.visited
             THEN LET r == HasCycle(es, nb[i], st)
                  IN  IF r.found THEN r ELSE HasCycleFrom(es, node, i + 1, r)
             ELSE IF nb[i] \in st.stack
                  THEN [st EXCEPT !.found = TRUE]
                  ELSE HasCycleFrom(es, node, i + 1, st)

\* the loop `for (const node of adjacency.keys())`
RECURSIVE CheckAllNodes(_, _, _, _)
CheckAllNodes(es, keys, i, st) ==
    IF i > Len(keys) THEN FALSE
    ELSE IF keys[i] \notin st.visited
         THEN LET r == HasCycle(es, keys[i], st)
              IN  IF r.found THEN TRUE ELSE CheckAllNodes(es, keys, i + 1, r)
         ELSE CheckAllNodes(es, keys, i + 1, st)

\* onConnect as in the store variant that appends without a cycle check
WouldCreateCycleUnchecked(source, target) == FALSE

\* a cycle check that lets source = target through
WouldCreateCycleNoSelf(source, target) ==
    LET withNew == Append(edges, [source |-> source, target |-> target])
    IN  /\ source # target
        /\ CheckAllNodes(withNew, AdjKeys(withNew, <<>>), 1,
                         [visited |-> {}, stack |-> {}, found |-> FALSE])

WouldCreateCycle(source, target) ==
    LET withNew == Append(edges, [source |-> source, target |-> target])
    IN  CheckAllNodes(withNew, AdjKeys(withNew, <<>>), 1,
                      [visited |-> {}, stack |-> {}, found |-> FALSE])

(* ----------------------------- store ----------------------------------- *)

\* the store as created and no block mounted; js are the jobs the server holds
InitWith(js) ==
    /\ nodes = <<>>
    /\ edges = <<>>
    /\ selectedNodeIds = <<>>
    /\ nodesToRun = <<>>
    /\ nextId = 0
    /\ jobs = js
    /\ cleanupRef = [n \in NodeIds |-> NoJob]
    /\ autoRunTriggered = [n \in NodeIds |-> FALSE]
    /\ cancelCalls = [n \in NodeIds |-> {}]
    /\ cancelInvoked = [n \in NodeIds |-> {}]
    /\ drained = [n \in NodeIds |-> 0]
    /\ requested = <<>>
    /\ held = {}
    /\ jobRecoveryAttempted = [n \in NodeIds |-> FALSE]
    /\ recoveryCleanupRef = [n \in NodeIds |-> NoJob]
    /\ recoveryCleanupArmed = [n \in NodeIds |-> FALSE]
    /\ recoveryFetches = [n \in NodeIds |-> {}]
    /\ recoveryFetched = [n \in NodeIds |-> 0]
    /\ recoverySubscribed = [n \in NodeIds |-> 0]
    /\ saved = <<>>
    /\ autoRuns = [n \in NodeIds |-> 0]
    /\ last = [op |-> "init"]

Init == InitWith([n \in NodeIds |-> <<>>])

\* addTextBlock(position, data): a fresh id, status idle, the node selected
NewTextNode(id, data) ==
    [id |-> id, type |-> "text", content |-> data.content,
     prompt |-> data.prompt, status |-> "idle", error |-> NoError,
     jobId |-> NoJob, autoRun |-> data.autoRun]

AddTextBlock(data) ==
    /\ nextId < MaxNodes
    /\ nextId' = nextId + 1
    /\ nodes' = Append(nodes, NewTextNode(nextId + 1, data))
    /\ selectedNodeIds' = <<nextId + 1>>
    /\ last' = [op |-> "addTextBlock"]
    /\ UNCHANGED <<edges, nodesToRun, jobVars, queueVars>>
    /\ UNCHANGED <<recoveryVars, persistVars>>

\* an addTextBlockWithEdge whose edge is put in front of the others
AddTextBlockWithEdgeInFront(sourceNodeId, data) ==
    /\ nextId < MaxNodes
    /\ Len(edges) < MaxEdges
    /\ nextId' = nextId + 1
    /\ nodes' = Append(nodes, NewTextNode(nextId + 1, data))
    /\ edges' = <<[source |-> sourceNodeId, target |-> nextId + 1]>> \o edges
    /\ selectedNodeIds' = <<nextId + 1>>
    /\ last' = [op |-> "addTextBlockWithEdge"]
    /\ UNCHANGED <<nodesToRun, jobVars, queueVars>>
    /\ UNCHANGED <<recoveryVars, persistVars>>

\* addTextBlockWithEdge(position, sourceNodeId, data): addTextBlock, then an
\* edge from the source to the new block, unchecked, and the block selected
AddTextBlockWithEdge(sourceNodeId, data) ==
    /\ nextId < MaxNodes
    /\ Len(edges) < MaxEdges
    /\ nextId' = nextId + 1
    /\ nodes' = Append(nodes, NewTextNode(nextId + 1, data))
    /\ edges' = Append(edges, [source |-> sourceNodeId, target |-> nextId + 1])
    /\ selectedNodeIds' = <<nextId + 1>>
    /\ last' = [op |-> "addTextBlockWithEdge"]
    /\ UNCHANGED <<nodesToRun, jobVars, queueVars>>
    /\ UNCHANGED <<recoveryVars, persistVars>>

\* an onConnect that leaves the edges alone when the edge is already there
OnConnectDeduplicating(source, target) ==
    /\ source \in NodeIdSet
    /\ target \in NodeIdSet
    /\ IF WouldCreateCycle(source, target)
       THEN /\ last' = [op |-> "onConnect", rejected |-> TRUE, self |-> source = target]
            /\ UNCHANGED <<storeVars, jobVars, queueVars>>
       ELSE /\ Len(edges) < MaxEdges
            /\ edges' = IF Includes(edges, [source |-> source, target |-> target])
                        THEN edges
                        ELSE Append(edges, [source |-> source, target |-> target])
            /\ last' = [op |-> "onConnect", rejected |-> FALSE, self |-> source = target]
            /\ UNCHANGED <<nodes, selectedNodeIds, nodesToRun, nextId, jobVars, queueVars>>
    /\ UNCHANGED <<recoveryVars, persistVars>>

\* onConnect({source, target}) between two blocks on the canvas
OnConnect(source, target) ==
    /\ source \in NodeIdSet
    /\ target \in NodeIdSet
    /\ IF WouldCreateCycle(source, target)
       THEN /\ last' = [op |-> "onConnect", rejected |-> TRUE, self |-> source = target]
            /\ UNCHANGED <<storeVars, jobVars, queueVars>>
       ELSE /\ Len(edges) < MaxEdges
            /\ edges' = Append(edges, [source |-> source, target |-> target])
            /\ last' = [op |-> "onConnect", rejected |-> FALSE, self |-> source = target]
            /\ UNCHANGED <<nodes, selectedNodeIds, nodesToRun, nextId, jobVars, queueVars>>
    /\ UNCHANGED <<recoveryVars, persistVars>>

\* a deleteNode that drops only the outgoing edges
DeleteNodeEdgesBySource(es, nodeId) ==
    SelectSeq(es, LAMBDA e : e.source # nodeId)

\* the edges.filter of deleteNode
DeleteNodeEdges(es, nodeId) ==
    SelectSeq(es, LAMBDA e : e.source # nodeId /\ e.target # nodeId)

\* a deleteNode that also takes the id off the run queue
DeleteNodeAndDequeue(nodeId) ==
    /\ nodeId \in NodeIdSet
    /\ nodes' = SelectSeq(nodes, LAMBDA n : n.id # nodeId)
    /\ edges' = DeleteNodeEdges(edges, nodeId)
    /\ selectedNodeIds' = SelectSeq(selectedNodeIds, LAMBDA id : id # nodeId)
    /\ nodesToRun' = SelectSeq(nodesToRun, LAMBDA id : id # nodeId)
    /\ last' = [op |-> "deleteNode",
                removed |-> Len(edges) - Len(DeleteNodeEdges(edges, nodeId))]
    /\ UNCHANGED <<nextId, jobVars, queueVars>>
    /\ UNCHANGED <<recoveryVars, persistVars>>

\* deleteNode(nodeId), from the block's delete button
DeleteNode(nodeId) ==
    /\ nodeId \in NodeIdSet
    /\ nodes' = SelectSeq(nodes, LAMBDA n : n.id # nodeId)
    /\ edges' = DeleteNodeEdges(edges, nodeId)
    /\ selectedNodeIds' = SelectSeq(selectedNodeIds, LAMBDA id : id # nodeId)
    /\ last' = [op |-> "deleteNode",
                removed |-> Len(edges) - Len(DeleteNodeEdges(edges, nodeId))]
    /\ UNCHANGED <<nodesToRun, nextId, jobVars, queueVars>>
    /\ UNCHANGED <<recoveryVars, persistVars>>

\* an edges.filter of deleteSelectedNodes that drops an edge only when both
\* its ends are selected
DeleteSelectedEdgesBothEnds(es, ids) ==
    SelectSeq(es, LAMBDA e : ~(Includes(ids, e.source) /\ Includes(ids, e.target)))

\* the edges.filter of deleteSelectedNodes
DeleteSelectedEdges(es, ids) ==
    SelectSeq(es, LAMBDA e : ~Includes(ids, e.source) /\ ~Includes(ids, e.target))

\* deleteSelectedNodes(), from the Delete and Backspace keys: nothing with an
\* empty selection; else the selected nodes and the edges at them go and the
\* selection is emptied
DeleteSelectedNodes ==
    /\ IF selectedNodeIds = << >>
       THEN UNCHANGED <<nodes, edges, selectedNodeIds>>
       ELSE /\ nodes' = SelectSeq(nodes, LAMBDA n : ~Includes(selectedNodeIds, n.id))
            /\ edges' = DeleteSelectedEdges(edges, selectedNodeIds)
            /\ selectedNodeIds' = << >>
    /\ last' = [op |-> "deleteSelectedNodes",
                removed |-> Len(edges) - Len(DeleteSelectedEdges(edges, selectedNodeIds)),
                deleted |-> Len(selectedNodeIds)]
    /\ UNCHANGED <<nodesToRun, nextId, jobVars, queueVars>>
    /\ UNCHANGED <<recoveryVars, persistVars>>

\* setSelectedNodes(ids), from React Flow's onSelectionChange: the selected
\* nodes in store order
SetSelectedNodes(S) ==
    /\ S \subseteq NodeIdSet
    /\ selectedNodeIds' = SelectSeq(NodeIdSeq, LAMBDA id : id \in S)
    /\ selectedNodeIds' # selectedNodeIds
    /\ last' = [op |-> "setSelectedNodes"]
    /\ UNCHANGED <<nodes, edges, nodesToRun, nextId, jobVars, queueVars>>
    /\ UNCHANGED <<recoveryVars, persistVars>>

Next ==
    \/ \E data \in GraphData : AddTextBlock(data)
    \/ \E s \in NodeIds, t \in NodeIds : OnConnect(s, t)
    \/ \E n \in NodeIds : DeleteNode(n)
    \/ \E S \in SUBSET NodeIds : SetSelectedNodes(S)

Spec == Init /\ [][Next]_vars

(* ------------------------ node data setters ---------------------------- *)

\* { ...node.data, ...data }
Merge(r, patch) == [ f \in DOMAIN r |-> IF f \in DOMAIN patch THEN patch[f] ELSE r[f] ]

\* an updateBlockData that creates the node when the id is absent
UpdateBlockDataUpsert(ns, nodeId, patch) ==
    IF \E i \in DOMAIN ns : ns[i].id = nodeId
    THEN [ i \in DOMAIN ns |-> IF ns[i].id = nodeId THEN Merge(ns[i], patch) ELSE ns[i] ]
    ELSE Append(ns, Merge([id |-> nodeId, type |-> "text", content |-> "",
                           prompt |-> "", status |-> "idle", error |-> NoError,
                           jobId |-> NoJob, autoRun |-> FALSE], patch))

\* updateBlockData(nodeId, data) on a node sequence: a no-op for an absent id
UpdateBlockData(ns, nodeId, patch) ==
    [ i \in DOMAIN ns |-> IF ns[i].id = nodeId THEN Merge(ns[i], patch) ELSE ns[i] ]

\* an updateBlockStatus that writes every node, not the one with the id
UpdateBlockStatusAll(ns, nodeId, status, error) ==
    [ i \in DOMAIN ns |-> Merge(ns[i], [status |-> status, error |-> error]) ]

\* updateBlockStatus(nodeId, status, error)
UpdateBlockStatus(ns, nodeId, status, error) ==
    [ i \in DOMAIN ns |-> IF ns[i].id = nodeId
                          THEN Merge(ns[i], [status |-> status, error |-> error])
                          ELSE ns[i] ]

(* --------------------------- run queue --------------------------------- *)

\* a requestRunForNodes that adds the ids to what is queued
RequestRunForNodesMerge(nodeIds) ==
    /\ nodesToRun' = nodesToRun \o SelectSeq(nodeIds, LAMBDA id : ~Includes(nodesToRun, id))
    /\ requested' = nodeIds
    /\ held' = { id \in Range(nodeIds) \cap NodeIdSet : NodeOf(id).status = "running" }
    /\ drained' = [ n \in NodeIds |-> 0 ]

\* requestRunForNodes(nodeIds): the queue is replaced
RequestRunForNodes(nodeIds) ==
    /\ nodesToRun' = nodeIds
    /\ requested' = nodeIds
    /\ held' = { id \in Range(nodeIds) \cap NodeIdSet : NodeOf(id).status = "running" }
    /\ drained' = [ n \in NodeIds |-> 0 ]

\* a clearNodeFromRunQueue that empties the queue
ClearNodeFromRunQueueAll(q, nodeId) == << >>

\* clearNodeFromRunQueue(nodeId)
ClearNodeFromRunQueue(q, nodeId) == SelectSeq(q, LAMBDA id : id # nodeId)

(* ------------------------- TextBlockNode ------------------------------- *)

\* a cleanup function that leaves the EventSource as it is
CloseStreamKeepOpen(js, j) == js

\* the cleanup function returned by subscribeToJob: eventSource.close()
CloseStream(js, j) == IF j = NoJob THEN js ELSE [js EXCEPT ![j].stream = "closed"]

\* createTextJob calls made so far
JobsSubmitted == Cardinality({ nj \in NodeIds \X JobIds : nj[2] \in DOMAIN jobs[nj[1]] })

\* a handleRun that submits whatever the prompt is
HandleRunNoValidation(n, ns) ==
    /\ JobsSubmitted < MaxJobs
    /\ nodes' = UpdateBlockData(UpdateBlockStatus(ns, n, "running", NoError),
                                n, [content |-> ""])
    /\ jobs' = [jobs EXCEPT ![n] =
                   Append(CloseStream(@, cleanupRef[n]),
                          [status |-> "submitting", stream |-> "none"])]
    /\ cleanupRef' = [cleanupRef EXCEPT ![n] = NoJob]

\* handleRun up to its await: nothing for an empty prompt; otherwise the old
\* stream is closed, the block is set running with empty content and the
\* createTextJob request leaves.  ns is the node sequence the caller has
\* already written.
HandleRun(n, ns) ==
    IF Trim(NodeIn(ns, n).prompt) = ""
    THEN /\ nodes' = ns
         /\ UNCHANGED <<jobs, cleanupRef>>
    ELSE /\ JobsSubmitted < MaxJobs
         /\ nodes' = UpdateBlockData(UpdateBlockStatus(ns, n, "running", NoError),
                                     n, [content |-> ""])
         /\ jobs' = [jobs EXCEPT ![n] =
                        Append(CloseStream(@, cleanupRef[n]),
                               [status |-> "submitting", stream |-> "none"])]
         /\ cleanupRef' = [cleanupRef EXCEPT ![n] = NoJob]

\* a submit response handler that subscribes without storing the job id
SubmitResolveNoAttach(n, j) ==
    /\ j \in DOMAIN jobs[n]
    /\ jobs[n][j].status = "submitting"
    /\ jobs' = [jobs EXCEPT ![n][j] = [status |-> "active", stream |-> "open"]]
    /\ cleanupRef' = [cleanupRef EXCEPT ![n] = j]
    /\ last' = [op |-> "submitResolve"]
    /\ UNCHANGED <<nodes, edges, selectedNodeIds, nodesToRun, nextId, autoRunTriggered,
                   cancelCalls, cancelInvoked, queueVars>>
    /\ UNCHANGED <<recoveryVars, persistVars>>

\* createTextJob resolves with the id of the job the server created: the id is
\* stored on the block and the stream is subscribed
SubmitResolve(n, j) ==
    /\ j \in DOMAIN jobs[n]
    /\ jobs[n][j].status = "submitting"
    /\ jobs' = [jobs EXCEPT ![n][j] = [status |-> "active", stream |-> "open"]]
    /\ nodes' = UpdateBlockData(nodes, n, [jobId |-> j])
    /\ cleanupRef' = [cleanupRef EXCEPT ![n] = j]
    /\ last' = [op |-> "submitResolve"]
    /\ UNCHANGED <<edges, selectedNodeIds, nodesToRun, nextId, autoRunTriggered,
                   cancelCalls, cancelInvoked, queueVars>>
    /\ UNCHANGED <<recoveryVars, persistVars>>

\* createTextJob rejects: the catch arm of handleRun
SubmitReject(n, j) ==
    /\ j \in DOMAIN jobs[n]
    /\ jobs[n][j].status = "submitting"
    /\ jobs' = [jobs EXCEPT ![n][j].status = "rejected"]
    /\ nodes' = UpdateBlockStatus(UpdateBlockData(nodes, n, [jobId |-> NoJob]),
                                  n, "error", "Failed to run")
    /\ last' = [op |-> "submitReject"]
    /\ UNCHANGED <<edges, selectedNodeIds, nodesToRun, nextId, cleanupRef,
                   autoRunTriggered, cancelCalls, cancelInvoked, queueVars>>
    /\ UNCHANGED <<recoveryVars, persistVars>>

\* an onChunk that concatenates the chunk to what is shown
OnChunkAppend(ns, n, text) ==
    UpdateBlockData(ns, n, [content |-> NodeIn(ns, n).content \o text])

\* the onChunk callback handleRun passes to subscribeToJob
OnChunk(ns, n, text) == UpdateBlockData(ns, n, [content |-> text])

\* an onDone that leaves the job attached
OnDoneKeepJob(ns, n, text) ==
    UpdateBlockStatus(UpdateBlockData(ns, n, [content |-> text]), n, "success", NoError)

\* the onDone callback
OnDone(ns, n, text) ==
    UpdateBlockStatus(UpdateBlockData(ns, n, [content |-> text, jobId |-> NoJob]),
                      n, "success", NoError)

\* an onError that shows a fixed text instead of the message it is given
OnErrorGeneric(ns, n, error) ==
    UpdateBlockStatus(UpdateBlockData(ns, n, [jobId |-> NoJob]), n, "error", "Failed to run")

\* the onError callback
OnError(ns, n, error) ==
    UpdateBlockStatus(UpdateBlockData(ns, n, [jobId |-> NoJob]), n, "error", error)

\* an onCancelled that reports the cancellation as an error
OnCancelledAsError(ns, n) ==
    UpdateBlockStatus(UpdateBlockData(ns, n, [jobId |-> NoJob]), n, "error", "Job cancelled")

\* the onCancelled callback
OnCancelled(ns, n) ==
    UpdateBlockStatus(UpdateBlockData(ns, n, [jobId |-> NoJob]), n, "idle", NoError)

(* -------------------- jobsApi.subscribeToJob --------------------------- *)

\* A stream event is taken in the step in which the server sends it: the job
\* takes its new status and the listener of the open stream runs.  A job is
\* "active" while the server has it Pending or Running.

StreamFrame == <<edges, selectedNodeIds, nodesToRun, nextId, autoRunTriggered,
                 cancelCalls, cancelInvoked, queueVars>>

\* the "chunk" listener: the job sends its text so far
StreamChunk(n, j, text) ==
    /\ j \in DOMAIN jobs[n]
    /\ jobs[n][j] = [status |-> "active", stream |-> "open"]
    /\ nodes' = OnChunk(nodes, n, text)
    /\ last' = [op |-> "onChunk", text |-> text,
                before |-> IF n \in NodeIdSet THEN NodeOf(n).content ELSE ""]
    /\ UNCHANGED <<jobs, cleanupRef, StreamFrame>>
    /\ UNCHANGED <<recoveryVars, persistVars>>

\* a "done" listener that does not close the EventSource
StreamDoneStayOpen(n, j) ==
    /\ j \in DOMAIN jobs[n]
    /\ jobs[n][j] = [status |-> "active", stream |-> "open"]
    /\ nodes' = OnDone(nodes, n, DoneText)
    /\ cleanupRef' = [cleanupRef EXCEPT ![n] = NoJob]
    /\ jobs' = [jobs EXCEPT ![n][j] = [status |-> "completed", stream |-> "open"]]
    /\ last' = [op |-> "onDone"]
    /\ UNCHANGED StreamFrame
    /\ UNCHANGED <<recoveryVars, persistVars>>

\* the "done" listener: onDone(result), then eventSource.close()
StreamDone(n, j) ==
    /\ j \in DOMAIN jobs[n]
    /\ jobs[n][j] = [status |-> "active", stream |-> "open"]
    /\ nodes' = OnDone(nodes, n, DoneText)
    /\ cleanupRef' = [cleanupRef EXCEPT ![n] = NoJob]
    /\ jobs' = [jobs EXCEPT ![n][j] = [status |-> "completed", stream |-> "closed"]]
    /\ last' = [op |-> "onDone"]
    /\ UNCHANGED StreamFrame
    /\ UNCHANGED <<recoveryVars, persistVars>>

\* the "error" listener on a server error event: onError(data.error), close
StreamError(n, j) ==
    /\ j \in DOMAIN jobs[n]
    /\ jobs[n][j] = [status |-> "active", stream |-> "open"]
    /\ \E message \in JobErrors :
          /\ nodes' = OnError(nodes, n, message)
          /\ last' = [op |-> "onError", error |-> message]
    /\ cleanupRef' = [cleanupRef EXCEPT ![n] = NoJob]
    /\ jobs' = [jobs EXCEPT ![n][j] = [status |-> "failed", stream |-> "closed"]]
    /\ UNCHANGED StreamFrame
    /\ UNCHANGED <<recoveryVars, persistVars>>

\* the "cancelled" listener: a cancelJob request has reached the server
StreamCancelled(n, j) ==
    /\ j \in DOMAIN jobs[n]
    /\ jobs[n][j] = [status |-> "active", stream |-> "open"]
    /\ j \in cancelCalls[n]
    /\ nodes' = OnCancelled(nodes, n)
    /\ cleanupRef' = [cleanupRef EXCEPT ![n] = NoJob]
    /\ jobs' = [jobs EXCEPT ![n][j] = [status |-> "cancelled", stream |-> "closed"]]
    /\ last' = [op |-> "onCancelled"]
    /\ UNCHANGED StreamFrame
    /\ UNCHANGED <<recoveryVars, persistVars>>

\* the "error" listener on a plain Event (no data): onError("Connection
\* error"), then eventSource.close(); what it calls and the readyState after
ErrorListenerOnEvent ==
    [calls |-> << "Connection error" >>, readyState |-> "closed"]

\* eventSource.onerror: nothing when the source is closed, else "Connection
\* lost"
OnerrorHandler(readyState) ==
    IF readyState = "closed" THEN << >> ELSE << "Connection lost" >>

\* the onError calls of one transport failure: the listeners of the error
\* Event run in the order they were added, the "error" listener before onerror
TransportErrorCalls ==
    ErrorListenerOnEvent.calls \o OnerrorHandler(ErrorListenerOnEvent.readyState)

\* the onError callback for each message in turn
RECURSIVE ApplyErrors(_, _, _, _)
ApplyErrors(ns, n, messages, i) ==
    IF i > Len(messages) THEN ns
    ELSE ApplyErrors(OnError(ns, n, messages[i]), n, messages, i + 1)

\* the transport fails while the stream is open: the browser fires a plain
\* error Event at the EventSource, and the stream ends closed
StreamTransportError(n, j) ==
    /\ j \in DOMAIN jobs[n]
    /\ jobs[n][j].stream = "open"
    /\ nodes' = ApplyErrors(nodes, n, TransportErrorCalls, 1)
    /\ cleanupRef' = [cleanupRef EXCEPT ![n] = NoJob]
    /\ jobs' = [jobs EXCEPT ![n] = CloseStream(@, j)]
    /\ last' = [op |-> "onTransportError", calls |-> TransportErrorCalls]
    /\ UNCHANGED StreamFrame
    /\ UNCHANGED <<recoveryVars, persistVars>>

\* an event of job j reaches an EventSource that has been closed: a closed
\* source dispatches nothing, no listener runs
StreamLateEvent(n, j) ==
    /\ j \in DOMAIN jobs[n]
    /\ jobs[n][j].stream = "closed"
    /\ last.op # "eventDropped"
    /\ last' = [op |-> "eventDropped", job |-> j]
    /\ UNCHANGED <<storeVars, jobVars, queueVars, recoveryVars, persistVars>>

\* the function subscribeToJob returned for job j is called by its holder,
\* any number of times, before or after the stream has ended
Unsubscribe(n, j) ==
    /\ j \in DOMAIN jobs[n]
    /\ jobs[n][j].stream # "none"
    /\ jobs' = [jobs EXCEPT ![n] = CloseStream(@, j)]
    /\ last' = [op |-> "unsubscribe", before |-> jobs[n][j].stream,
                repeated |-> last.op = "unsubscribe"]
    /\ UNCHANGED <<storeVars, cleanupRef, autoRunTriggered, cancelCalls, cancelInvoked,
                   queueVars>>
    /\ UNCHANGED <<recoveryVars, persistVars>>

(* ----------------------------- cancel ---------------------------------- *)

\* handleCancel after its await
CancelFinish(n) ==
    /\ jobs' = [jobs EXCEPT ![n] = CloseStream(@, cleanupRef[n])]
    /\ cleanupRef' = [cleanupRef EXCEPT ![n] = NoJob]
    /\ nodes' = UpdateBlockStatus(UpdateBlockData(nodes, n, [jobId |-> NoJob]),
                                  n, "idle", NoError)

\* the jobs of block n a cancel click is aimed at: the attached job and the
\* jobs whose createTextJob has not returned yet
CancelTargets(n) ==
    { j \in DOMAIN jobs[n] : j = NodeOf(n).jobId \/ jobs[n][j].status = "submitting" }

\* handleCancel, from the cancel button shown while the block is running:
\* with a jobId it awaits cancelJob first, without one it runs through
HandleCancel(n) ==
    /\ n \in NodeIdSet
    /\ NodeOf(n).status = "running"
    /\ cancelInvoked' = [cancelInvoked EXCEPT ![n] = @ \cup CancelTargets(n)]
    /\ IF NodeOf(n).jobId # NoJob
       THEN /\ NodeOf(n).jobId \notin cancelCalls[n]
            /\ cancelCalls' = [cancelCalls EXCEPT ![n] = @ \cup {NodeOf(n).jobId}]
            /\ last' = [op |-> "handleCancel", awaiting |-> TRUE]
            /\ UNCHANGED <<nodes, jobs, cleanupRef>>
       ELSE /\ CancelFinish(n)
            /\ last' = [op |-> "handleCancel", awaiting |-> FALSE]
            /\ UNCHANGED cancelCalls
    /\ UNCHANGED <<edges, selectedNodeIds, nodesToRun, nextId, autoRunTriggered, queueVars>>
    /\ UNCHANGED <<recoveryVars, persistVars>>

\* cancelJob(j) settles, resolved or rejected alike, and handleCancel goes on
CancelResume(n, j) ==
    /\ j \in cancelCalls[n]
    /\ cancelCalls' = [cancelCalls EXCEPT ![n] = @ \ {j}]
    /\ CancelFinish(n)
    /\ last' = [op |-> "cancelResume"]
    /\ UNCHANGED <<edges, selectedNodeIds, nodesToRun, nextId, autoRunTriggered,
                   cancelInvoked, queueVars>>
    /\ UNCHANGED <<recoveryVars, persistVars>>

(* --------------------------- BaseBlockNode ----------------------------- *)

\* a run click that queues the selection whenever more than one block is
\* selected, the clicked block among them or not
HandleRunClickAnySelection(n) ==
    /\ n \in NodeIdSet
    /\ NodeOf(n).status # "running"
    /\ Trim(NodeOf(n).prompt) # ""
    /\ IF Len(selectedNodeIds) > 1
       THEN /\ RequestRunForNodes(selectedNodeIds)
            /\ last' = [op |-> "handleRunClick", queued |-> TRUE,
                        dropped |-> { id \in Range(nodesToRun) :
                                        ~Includes(selectedNodeIds, id) }]
            /\ UNCHANGED <<nodes, jobs, cleanupRef>>
       ELSE /\ HandleRun(n, nodes)
            /\ last' = [op |-> "handleRunClick", queued |-> FALSE]
            /\ UNCHANGED <<nodesToRun, queueVars>>
    /\ UNCHANGED <<edges, selectedNodeIds, nextId, autoRunTriggered, cancelCalls,
                   cancelInvoked>>
    /\ UNCHANGED <<recoveryVars, persistVars>>

\* handleDelete, from the Delete button of the toolbar, which is disabled
\* while the block is running
HandleDelete(n) ==
    /\ n \in NodeIdSet
    /\ NodeOf(n).status # "running"
    /\ DeleteNode(n)

\* texts typed into the content field
Contents == {"", "Hi"}

\* the content field is edited: the new text is stored in the block's data
HandleContentChange(n, value) ==
    /\ n \in NodeIdSet
    /\ NodeOf(n).content # value
    /\ nodes' = UpdateBlockData(nodes, n, [content |-> value])
    /\ last' = [op |-> "handleContentChange"]
    /\ UNCHANGED <<edges, selectedNodeIds, nodesToRun, nextId, jobVars, queueVars>>
    /\ UNCHANGED <<recoveryVars, persistVars>>

\* the prompt field is edited: the new text is stored in the block's data
HandlePromptChange(n, value) ==
    /\ n \in NodeIdSet
    /\ NodeOf(n).prompt # value
    /\ nodes' = UpdateBlockData(nodes, n, [prompt |-> value])
    /\ last' = [op |-> "handlePromptChange"]
    /\ UNCHANGED <<edges, selectedNodeIds, nodesToRun, nextId, jobVars, queueVars>>
    /\ UNCHANGED <<recoveryVars, persistVars>>

\* handleRunClick: the run button is enabled when the block is not running and
\* has a prompt; a multi-selection holding the block is queued, else it runs
HandleRunClick(n) ==
    /\ n \in NodeIdSet
    /\ NodeOf(n).status # "running"
    /\ Trim(NodeOf(n).prompt) # ""
    /\ IF Len(selectedNodeIds) > 1 /\ Includes(selectedNodeIds, n)
       THEN /\ RequestRunForNodes(selectedNodeIds)
            /\ last' = [op |-> "handleRunClick", queued |-> TRUE,
                        dropped |-> { id \in Range(nodesToRun) :
                                        ~Includes(selectedNodeIds, id) }]
            /\ UNCHANGED <<nodes, jobs, cleanupRef>>
       ELSE /\ HandleRun(n, nodes)
            /\ last' = [op |-> "handleRunClick", queued |-> FALSE]
            /\ UNCHANGED <<nodesToRun, queueVars>>
    /\ UNCHANGED <<edges, selectedNodeIds, nextId, autoRunTriggered, cancelCalls,
                   cancelInvoked>>
    /\ UNCHANGED <<recoveryVars, persistVars>>

\* a run-queue effect that never clears the block from the queue
RunQueueEffectNoClear(n) ==
    /\ n \in NodeIdSet
    /\ Includes(nodesToRun, n)
    /\ NodeOf(n).status # "running"
    /\ HandleRun(n, nodes)
    /\ drained' = [drained EXCEPT ![n] = IF @ < 2 THEN @ + 1 ELSE @]
    /\ held' = held \ {n}
    /\ last' = [op |-> "runQueueEffect", held |-> n \in held]
    /\ UNCHANGED <<edges, selectedNodeIds, nextId, autoRunTriggered, cancelCalls,
                   cancelInvoked, requested, nodesToRun>>
    /\ UNCHANGED <<recoveryVars, persistVars>>

\* a run-queue effect without the status gate
RunQueueEffectNoGate(n) ==
    /\ n \in NodeIdSet
    /\ Includes(nodesToRun, n)
    /\ nodesToRun' = ClearNodeFromRunQueue(nodesToRun, n)
    /\ HandleRun(n, nodes)
    /\ drained' = [drained EXCEPT ![n] = IF @ < 2 THEN @ + 1 ELSE @]
    /\ held' = held \ {n}
    /\ last' = [op |-> "runQueueEffect", held |-> n \in held]
    /\ UNCHANGED <<edges, selectedNodeIds, nextId, autoRunTriggered, cancelCalls,
                   cancelInvoked, requested>>
    /\ UNCHANGED <<recoveryVars, persistVars>>

\* the run-queue effect of a mounted block: queued and not running, it leaves
\* the queue and then runs
RunQueueEffect(n) ==
    /\ n \in NodeIdSet
    /\ Includes(nodesToRun, n)
    /\ NodeOf(n).status # "running"
    /\ nodesToRun' = ClearNodeFromRunQueue(nodesToRun, n)
    /\ HandleRun(n, nodes)
    /\ drained' = [drained EXCEPT ![n] = IF @ < 2 THEN @ + 1 ELSE @]
    /\ held' = held \ {n}
    /\ last' = [op |-> "runQueueEffect", held |-> n \in held]
    /\ UNCHANGED <<edges, selectedNodeIds, nextId, autoRunTriggered, cancelCalls,
                   cancelInvoked, requested>>
    /\ UNCHANGED <<recoveryVars, persistVars>>

\* an auto-run effect that leaves the autoRun flag set
AutoRunEffectKeepFlag(n) ==
    /\ n \in NodeIdSet
    /\ NodeOf(n).autoRun
    /\ ~autoRunTriggered[n]
    /\ NodeOf(n).status = "idle"
    /\ autoRunTriggered' = [autoRunTriggered EXCEPT ![n] = TRUE]
    /\ HandleRun(n, nodes)
    /\ autoRuns' = [autoRuns EXCEPT ![n] = IF @ < 2 THEN @ + 1 ELSE @]
    /\ last' = [op |-> "autoRunEffect"]
    /\ UNCHANGED <<edges, selectedNodeIds, nodesToRun, nextId, cancelCalls,
                   cancelInvoked, queueVars>>
    /\ UNCHANGED <<recoveryVars, saved>>

\* the auto-run effect: once per mount, on an idle block flagged autoRun; the
\* flag is cleared (handleAutoRunComplete) and the block runs
AutoRunEffect(n) ==
    /\ n \in NodeIdSet
    /\ NodeOf(n).autoRun
    /\ ~autoRunTriggered[n]
    /\ NodeOf(n).status = "idle"
    /\ autoRunTriggered' = [autoRunTriggered EXCEPT ![n] = TRUE]
    /\ HandleRun(n, UpdateBlockData(nodes, n, [autoRun |-> FALSE]))
    /\ autoRuns' = [autoRuns EXCEPT ![n] = IF @ < 2 THEN @ + 1 ELSE @]
    /\ last' = [op |-> "autoRunEffect"]
    /\ UNCHANGED <<edges, selectedNodeIds, nodesToRun, nextId, cancelCalls,
                   cancelInvoked, queueVars>>
    /\ UNCHANGED <<recoveryVars, saved>>

(* ---------------------------- job server ------------------------------- *)

\* a job whose stream the client has closed ends on the server: completed,
\* failed, or cancelled when a cancelJob request has reached it
ServerFinish(n, j, status) ==
    /\ j \in DOMAIN jobs[n]
    /\ jobs[n][j] = [status |-> "active", stream |-> "closed"]
    /\ status \in {"completed", "failed", "cancelled"}
    /\ status = "cancelled" => j \in cancelCalls[n]
    /\ jobs' = [jobs EXCEPT ![n][j].status = status]
    /\ last' = [op |-> "serverFinish"]
    /\ UNCHANGED <<storeVars, cleanupRef, autoRunTriggered, cancelCalls, cancelInvoked,
                   queueVars>>
    /\ UNCHANGED <<recoveryVars, persistVars>>

(* ------------------------ rehydration and recovery --------------------- *)

\* the largest id of a node sequence
MaxId(ns) == IF ns = <<>> THEN 0
             ELSE CHOOSE m \in { ns[i].id : i \in DOMAIN ns } :
                     \A i \in DOMAIN ns : ns[i].id <= m

\* loadCanvas(nodes, edges), called by App once the saved document has been
\* fetched, before any block is mounted: nodes and edges are replaced
LoadCanvas(ns, es) ==
    /\ nodes = <<>>
    /\ nextId = 0
    /\ nodes' = ns
    /\ edges' = es
    /\ nextId' = MaxId(ns)
    /\ last' = [op |-> "loadCanvas"]
    /\ UNCHANGED <<selectedNodeIds, nodesToRun, jobVars, queueVars, recoveryVars>>
    /\ UNCHANGED persistVars

\* a saved text node: id, data, status and attached job as they were persisted
SavedNode(id, data, status, jobId) ==
    Merge(NewTextNode(id, data), [status |-> status, jobId |-> jobId])

\* the jobRecovery prop of block n: the attached job id, and as callbacks the
\* onChunk / onDone / onError / onCancelled of the live path
JobRecovery(n) == [jobId |-> NodeOf(n).jobId]

\* what getJob(j) can answer for a job of block n: its status, and for a
\* completed job a result that is present or absent
JobReplies(n, j) ==
    IF j \notin DOMAIN jobs[n] THEN {}
    ELSE IF jobs[n][j].status = "completed"
    THEN { [status |-> "completed", result |-> r] : r \in BOOLEAN }
    ELSE { [status |-> jobs[n][j].status, result |-> FALSE] }

\* a recovery effect that ignores jobRecoveryAttemptedRef
RecoveryEffectNoGuard(n) ==
    /\ n \in NodeIdSet
    /\ JobRecovery(n).jobId # NoJob
    /\ recoveryFetched[n] < MaxFetches
    /\ jobRecoveryAttempted' = [jobRecoveryAttempted EXCEPT ![n] = TRUE]
    /\ recoveryCleanupArmed' = [recoveryCleanupArmed EXCEPT ![n] = TRUE]
    /\ recoveryFetches' = [recoveryFetches EXCEPT ![n] = @ \cup {JobRecovery(n).jobId}]
    /\ recoveryFetched' = [recoveryFetched EXCEPT ![n] = @ + 1]
    /\ last' = [op |-> "recoveryEffect"]
    /\ UNCHANGED <<storeVars, jobVars, queueVars, recoveryCleanupRef, recoverySubscribed>>
    /\ UNCHANGED persistVars

\* the job recovery effect up to its await: with a job attached and the guard
\* flag clear, the flag is set and getJob is requested
RecoveryEffect(n) ==
    /\ n \in NodeIdSet
    /\ JobRecovery(n).jobId # NoJob
    /\ ~jobRecoveryAttempted[n]
    /\ recoveryFetched[n] < MaxFetches
    /\ jobRecoveryAttempted' = [jobRecoveryAttempted EXCEPT ![n] = TRUE]
    /\ recoveryCleanupArmed' = [recoveryCleanupArmed EXCEPT ![n] = TRUE]
    /\ recoveryFetches' = [recoveryFetches EXCEPT ![n] = @ \cup {JobRecovery(n).jobId}]
    /\ recoveryFetched' = [recoveryFetched EXCEPT ![n] = @ + 1]
    /\ last' = [op |-> "recoveryEffect"]
    /\ UNCHANGED <<storeVars, jobVars, queueVars, recoveryCleanupRef, recoverySubscribed>>
    /\ UNCHANGED persistVars

\* recoverJob after getJob resolves with reply: done / error / cancelled
\* handling for a terminal status, a subscription for a pending or running
\* job, nothing for a completed job without result
RecoveryFetchResolve(n, j, reply) ==
    /\ j \in recoveryFetches[n]
    /\ reply \in JobReplies(n, j)
    /\ recoveryFetches' = [recoveryFetches EXCEPT ![n] = @ \ {j}]
    /\ IF reply.status = "completed" /\ reply.result
       THEN /\ nodes' = OnDone(nodes, n, DoneText)
            /\ UNCHANGED <<jobs, recoveryCleanupRef, recoverySubscribed>>
       ELSE IF reply.status = "failed"
       THEN /\ nodes' = OnError(nodes, n, JobError)
            /\ UNCHANGED <<jobs, recoveryCleanupRef, recoverySubscribed>>
       ELSE IF reply.status = "cancelled"
       THEN /\ nodes' = OnCancelled(nodes, n)
            /\ UNCHANGED <<jobs, recoveryCleanupRef, recoverySubscribed>>
       ELSE IF reply.status = "active"
       THEN /\ jobs' = [jobs EXCEPT ![n][j].stream = "open"]
            /\ recoveryCleanupRef' = [recoveryCleanupRef EXCEPT ![n] = j]
            /\ recoverySubscribed' = [recoverySubscribed EXCEPT ![n] = @ + 1]
            /\ UNCHANGED nodes
       ELSE UNCHANGED <<nodes, jobs, recoveryCleanupRef, recoverySubscribed>>
    /\ last' = [op |-> "recoveryFetchResolve", reply |-> reply]
    /\ UNCHANGED <<edges, selectedNodeIds, nodesToRun, nextId, cleanupRef,
                   autoRunTriggered, cancelCalls, cancelInvoked, queueVars,
                   jobRecoveryAttempted, recoveryCleanupArmed, recoveryFetched>>
    /\ UNCHANGED persistVars

\* getJob rejects: the catch arm of recoverJob
RecoveryFetchReject(n, j) ==
    /\ j \in recoveryFetches[n]
    /\ recoveryFetches' = [recoveryFetches EXCEPT ![n] = @ \ {j}]
    /\ nodes' = OnError(nodes, n, "Failed to recover job")
    /\ last' = [op |-> "recoveryFetchReject"]
    /\ UNCHANGED <<edges, selectedNodeIds, nodesToRun, nextId, jobVars, queueVars,
                   jobRecoveryAttempted, recoveryCleanupRef, recoveryCleanupArmed,
                   recoveryFetched, recoverySubscribed>>
    /\ UNCHANGED persistVars

\* the cleanup the recovery effect returned, run when the block is rendered
\* with another jobRecovery object: the recovery stream, if open by then, is
\* closed; the effect body that follows returns at the guard flag
RecoveryCleanup(n) ==
    /\ recoveryCleanupArmed[n]
    /\ recoveryCleanupArmed' = [recoveryCleanupArmed EXCEPT ![n] = FALSE]
    /\ jobs' = [jobs EXCEPT ![n] = CloseStream(@, recoveryCleanupRef[n])]
    /\ recoveryCleanupRef' = [recoveryCleanupRef EXCEPT ![n] = NoJob]
    /\ last' = [op |-> "recoveryCleanup"]
    /\ UNCHANGED <<storeVars, cleanupRef, autoRunTriggered, cancelCalls, cancelInvoked,
                   queueVars, jobRecoveryAttempted, recoveryFetches, recoveryFetched,
                   recoverySubscribed>>
    /\ UNCHANGED persistVars

\* the reset effect: with no job attached the guard flag is cleared
RecoveryResetEffect(n) ==
    /\ n \in NodeIdSet
    /\ JobRecovery(n).jobId = NoJob
    /\ jobRecoveryAttempted[n]
    /\ jobRecoveryAttempted' = [jobRecoveryAttempted EXCEPT ![n] = FALSE]
    /\ last' = [op |-> "recoveryResetEffect"]
    /\ UNCHANGED <<storeVars, jobVars, queueVars, recoveryCleanupRef,
                   recoveryCleanupArmed, recoveryFetches, recoveryFetched,
                   recoverySubscribed>>
    /\ UNCHANGED persistVars

\* the saved documents recovery is tried on: one text block, saved running or
\* idle, with or without its job attached
SavedData == { [content |-> c, prompt |-> "p", autoRun |-> FALSE] : c \in {"", "Hel"} }

RecoveryDocs ==
    { <<SavedNode(1, d, st, j)>> :
        d \in SavedData, st \in {"running", "idle"}, j \in {NoJob, 1} }

\* the server holds the block's job of the earlier session, in any status
RecoveryInit ==
    \E st \in {"active", "completed", "failed", "cancelled"} :
        InitWith([n \in NodeIds |->
                    IF n = 1 THEN <<[status |-> st, stream |-> "none"]>> ELSE <<>>])

(* ------------------------------ inputs --------------------------------- *)

\* addImageBlock(position, data): a fresh id, status idle, the node selected
NewImageNode(id, data) ==
    [id |-> id, type |-> "image", imageUrl |-> data.imageUrl,
     prompt |-> "", status |-> "idle", error |-> NoError,
     jobId |-> NoJob, autoRun |-> FALSE]

AddImageBlock(data) ==
    /\ nextId < MaxNodes
    /\ nextId' = nextId + 1
    /\ nodes' = Append(nodes, NewImageNode(nextId + 1, data))
    /\ selectedNodeIds' = <<nextId + 1>>
    /\ last' = [op |-> "addImageBlock"]
    /\ UNCHANGED <<edges, nodesToRun, jobVars, queueVars>>
    /\ UNCHANGED <<recoveryVars, persistVars>>

\* addImageBlockWithEdge(position, sourceNodeId, data): addImageBlock, then
\* an edge from the source to the new block, unchecked, and the block selected
AddImageBlockWithEdge(sourceNodeId, data) ==
    /\ nextId < MaxNodes
    /\ Len(edges) < MaxEdges
    /\ nextId' = nextId + 1
    /\ nodes' = Append(nodes, NewImageNode(nextId + 1, data))
    /\ edges' = Append(edges, [source |-> sourceNodeId, target |-> nextId + 1])
    /\ selectedNodeIds' = <<nextId + 1>>
    /\ last' = [op |-> "addImageBlockWithEdge"]
    /\ UNCHANGED <<nodesToRun, jobVars, queueVars>>
    /\ UNCHANGED <<recoveryVars, persistVars>>

\* data handed to addImageBlock when a block is created from the edge-drop menu
CanvasImageData == { [imageUrl |-> ""] }

\* getInputBlocks(nodeId): the nodes of the store, in store order, whose id is
\* the source of an edge into nodeId
GetInputBlocks(nodeId) ==
    LET inputEdges == SelectSeq(edges, LAMBDA edge : edge.target = nodeId)
        inputEdgeSources == [ i \in DOMAIN inputEdges |-> inputEdges[i].source ]
    IN SelectSeq(nodes, LAMBDA node : Includes(inputEdgeSources, node.id))

\* a loop body of getInputBlockContent that pushes the content as it is
ContentItemUntrimmed(block) ==
    IF block.type = "text"
    THEN IF Trim(block.content) # ""
         THEN << [type |-> "text", content |-> block.content] >>
         ELSE << >>
    ELSE IF block.type = "image"
    THEN IF block.imageUrl # ""
         THEN << [type |-> "image", url |-> block.imageUrl] >>
         ELSE << >>
    ELSE << >>

\* the loop body of getInputBlockContent: what one input block pushes
ContentItem(block) ==
    IF block.type = "text"
    THEN IF Trim(block.content) # ""
         THEN << [type |-> "text", content |-> Trim(block.content)] >>
         ELSE << >>
    ELSE IF block.type = "image"
    THEN IF block.imageUrl # ""
         THEN << [type |-> "image", url |-> block.imageUrl] >>
         ELSE << >>
    ELSE << >>

\* the for loop of getInputBlockContent from block i on
RECURSIVE ContentItems(_, _)
ContentItems(blocks, i) ==
    IF i > Len(blocks) THEN << >>
    ELSE ContentItem(blocks[i]) \o ContentItems(blocks, i + 1)

\* getInputBlockContent(nodeId)
GetInputBlockContent(nodeId) ==
    LET inputBlocks == GetInputBlocks(nodeId)
    IN IF Len(inputBlocks) = 0 THEN << >> ELSE ContentItems(inputBlocks, 1)

\* handleRun reads the inputs of block nodeId for its request
ReadInputs(nodeId) ==
    /\ nodeId \in NodeIdSet
    /\ last' = [op |-> "getInputBlockContent", node |-> nodeId,
                blocks |-> GetInputBlocks(nodeId),
                items |-> GetInputBlockContent(nodeId)]
    /\ UNCHANGED <<storeVars, jobVars, queueVars, recoveryVars, persistVars>>

\* data of the text and image blocks whose content is read as input
InputTextData == { [content |-> c, prompt |-> "", autoRun |-> FALSE] :
                     c \in {"", " Hi ", "Hello"} }
InputImageData == { [imageUrl |-> u] : u \in {"", "img.png"} }

\* a saved document holding a node that is neither a text nor an image block
InputDocs == { << [id |-> 1, type |-> "group", status |-> "idle"] >> }

(* ------------------------------ lineage -------------------------------- *)

\* backward.get(node) || [] and forward.get(node) || []: the other ends of the
\* edges at the node, in edge order
Backward(es, node) ==
    LET into == SelectSeq(es, LAMBDA edge : edge.target = node)
    IN [ i \in DOMAIN into |-> into[i].source ]

Forward(es, node) ==
    LET from == SelectSeq(es, LAMBDA edge : edge.source = node)
    IN [ i \in DOMAIN from |-> from[i].target ]

\* loop iterations after which a traversal is given up as not terminating;
\* a traversal that marks what it has found needs at most one per node and
\* one more for the start
MaxVisits == 2 * MaxLoaded + 2

\* an inner loop that pushes every neighbour, found before or not
RECURSIVE PushAll(_, _, _, _)
PushAll(nbrs, i, found, queue) ==
    IF i > Len(nbrs) THEN [found |-> found, queue |-> queue]
    ELSE PushAll(nbrs, i + 1,
                 IF Includes(found, nbrs[i]) THEN found ELSE Append(found, nbrs[i]),
                 Append(queue, nbrs[i]))

\* the inner for loop of a traversal: each neighbour not found yet is added
\* to the Set and pushed on the queue
RECURSIVE PushNew(_, _, _, _)
PushNew(nbrs, i, found, queue) ==
    IF i > Len(nbrs) THEN [found |-> found, queue |-> queue]
    ELSE IF Includes(found, nbrs[i])
    THEN PushNew(nbrs, i + 1, found, queue)
    ELSE PushNew(nbrs, i + 1, Append(found, nbrs[i]), Append(queue, nbrs[i]))

\* a traversal that stops at the neighbours of the start node
TraverseDirect(es, back, queue, found, visited, fuel) ==
    LET current == Head(queue)
        nbrs == IF back THEN Backward(es, current) ELSE Forward(es, current)
        r == PushNew(nbrs, 1, found, << >>)
    IN [found |-> r.found, visited |-> <<current>>, done |-> TRUE]

\* the while loop of a traversal (back TRUE: ancestors, FALSE: descendants):
\* found is the Set in insertion order, visited the nodes shifted off the
\* queue so far; done is FALSE when the loop is still running after MaxVisits
RECURSIVE Traverse(_, _, _, _, _, _)
Traverse(es, back, queue, found, visited, fuel) ==
    IF queue = << >> THEN [found |-> found, visited |-> visited, done |-> TRUE]
    ELSE IF fuel = 0 THEN [found |-> found, visited |-> visited, done |-> FALSE]
    ELSE LET current == Head(queue)
             nbrs == IF back THEN Backward(es, current) ELSE Forward(es, current)
             r == PushNew(nbrs, 1, found, Tail(queue))
         IN Traverse(es, back, r.queue, r.found, Append(visited, current), fuel - 1)

\* a getLineage whose Sets start out holding the node itself
GetLineageFromSelf(nodeId) ==
    LET a == Traverse(edges, TRUE, <<nodeId>>, <<nodeId>>, << >>, MaxVisits)
        d == Traverse(edges, FALSE, <<nodeId>>, <<nodeId>>, << >>, MaxVisits)
    IN [ancestors |-> a.found, descendants |-> d.found,
        visitedBack |-> a.visited, visitedForward |-> d.visited,
        done |-> a.done /\ d.done]

\* getLineage(nodeId): Array.from of the two Sets, and what each loop visited
GetLineage(nodeId) ==
    LET a == Traverse(edges, TRUE, <<nodeId>>, << >>, << >>, MaxVisits)
        d == Traverse(edges, FALSE, <<nodeId>>, << >>, << >>, MaxVisits)
    IN [ancestors |-> a.found, descendants |-> d.found,
        visitedBack |-> a.visited, visitedForward |-> d.visited,
        done |-> a.done /\ d.done]

\* the canvas asks for the lineage of a node
ReadLineage(nodeId) ==
    /\ nodeId \in NodeIdSet
    /\ last' = [op |-> "getLineage", node |-> nodeId, lineage |-> GetLineage(nodeId)]
    /\ UNCHANGED <<storeVars, jobVars, queueVars, recoveryVars, persistVars>>

\* the saved documents whose lineage is read: MaxLoaded text nodes and up to
\* MaxLoadedEdges distinct edges between them, self-loops and cycles
\* included, listed by source and target
LoadedIds == 1..MaxLoaded

LoadedNodes ==
    [ i \in LoadedIds |->
        SavedNode(i, [content |-> "Hello", prompt |-> "", autoRun |-> FALSE],
                  "idle", NoJob) ]

EdgeRank(e) == (e.source - 1) * MaxLoaded + e.target

\* the edges that may follow the last edge of es in the listing
LaterEdges(es) ==
    { e \in [source : LoadedIds, target : LoadedIds] :
        es = << >> \/ EdgeRank(es[Len(es)]) < EdgeRank(e) }

RECURSIVE LoadedEdges(_)
LoadedEdges(k) ==
    IF k = 0 THEN { << >> }
    ELSE LET shorter == LoadedEdges(k - 1)
         IN shorter \cup
            UNION { { Append(es, e) : e \in LaterEdges(es) } :
                      es \in { x \in shorter : Len(x) = k - 1 } }

LineageDocs(k) == LoadedEdges(k)

(* ----------------------- cycle check on documents ---------------------- *)

\* the edges of a document in the opposite listing order
ReverseEdges(es) == [ i \in DOMAIN es |-> es[Len(es) + 1 - i] ]

\* the edge lists the cycle check is asked about: each document of up to k
\* edges, listed forward and backward
CycleDocs(k) == LoadedEdges(k) \cup { ReverseEdges(es) : es \in LoadedEdges(k) }

\* a caller asks the store whether source -> target would close a cycle
ReadWouldCreateCycle(source, target) ==
    /\ source \in NodeIdSet
    /\ target \in NodeIdSet
    /\ last' = [op |-> "wouldCreateCycle", source |-> source, target |-> target,
                result |-> WouldCreateCycle(source, target)]
    /\ UNCHANGED <<storeVars, jobVars, queueVars, recoveryVars, persistVars>>

(* ----------------------------- persistence ----------------------------- *)

\* no auto-run effect is due: the effects of a commit run before the next
\* event is handled and long before the save timer (1 s) fires
EffectsSettled ==
    \A n \in NodeIdSet :
        ~(NodeOf(n).autoRun /\ ~autoRunTriggered[n] /\ NodeOf(n).status = "idle")

\* the debounced saveCanvas of App: the nodes as they are go to the server
SaveCanvas ==
    /\ EffectsSettled
    /\ nodes # <<>>
    /\ saved # nodes
    /\ saved' = nodes
    /\ last' = [op |-> "saveCanvas"]
    /\ UNCHANGED <<storeVars, jobVars, queueVars, recoveryVars, autoRuns>>

\* the jobs of a block once the page is gone: open streams are closed and a
\* createTextJob without reply has left a job nobody holds the id of
PageUnload(js) ==
    [ j \in DOMAIN js |->
        IF js[j].status = "submitting" THEN [status |-> "active", stream |-> "closed"]
        ELSE IF js[j].stream = "open" THEN [js[j] EXCEPT !.stream = "closed"]
        ELSE js[j] ]

\* the page is reloaded: the store and every component start afresh, and
\* initCanvas hands the saved document to loadCanvas
Reload ==
    /\ EffectsSettled
    /\ saved # <<>>
    /\ nodes' = saved
    /\ edges' = <<>>
    /\ selectedNodeIds' = <<>>
    /\ nodesToRun' = <<>>
    /\ jobs' = [n \in NodeIds |-> PageUnload(jobs[n])]
    /\ cleanupRef' = [n \in NodeIds |-> NoJob]
    /\ autoRunTriggered' = [n \in NodeIds |-> FALSE]
    /\ cancelCalls' = [n \in NodeIds |-> {}]
    /\ last' = [op |-> "reload"]
    /\ UNCHANGED <<nextId, cancelInvoked, queueVars, recoveryVars, saved, autoRuns>>

(* --------------------------- specifications ---------------------------- *)

\* One text block and its jobs: the component state (refs, awaited calls) and
\* the jobs of a block are its own, and the store setters write one node by id.
JobNext ==
    \/ \E data \in JobData : nodes = <<>> /\ AddTextBlock(data)
    \/ \E n \in NodeIds : HandleRunClick(n)
    \/ \E n \in NodeIds : AutoRunEffect(n)
    \/ \E n \in NodeIds : HandleCancel(n)
    \/ \E n \in NodeIds, j \in JobIds : CancelResume(n, j)
    \/ \E n \in NodeIds, j \in JobIds : SubmitResolve(n, j)
    \/ \E n \in NodeIds, j \in JobIds : SubmitReject(n, j)
    \/ \E n \in NodeIds, j \in JobIds, text \in ChunkTexts : StreamChunk(n, j, text)
    \/ \E n \in NodeIds, j \in JobIds : StreamDone(n, j)
    \/ \E n \in NodeIds, j \in JobIds : StreamError(n, j)
    \/ \E n \in NodeIds, j \in JobIds : StreamCancelled(n, j)
    \/ \E n \in NodeIds, j \in JobIds : StreamTransportError(n, j)
    \/ \E n \in NodeIds, j \in JobIds, status \in {"completed", "failed", "cancelled"} :
          ServerFinish(n, j, status)

JobSpec == Init /\ [][JobNext]_vars

\* Blocks run from the button, the queue and autoRun, and cancelled; of a
\* job's stream only the done event, which returns the block from running.
RunNext ==
    \/ \E data \in JobData : nextId < MaxBlocks /\ AddTextBlock(data)
    \/ \E S \in SUBSET NodeIds : SetSelectedNodes(S)
    \/ \E n \in NodeIds : HandleRunClick(n)
    \/ \E n \in NodeIds : RunQueueEffect(n)
    \/ \E n \in NodeIds : AutoRunEffect(n)
    \/ \E n \in NodeIds : HandleCancel(n)
    \/ \E n \in NodeIds, j \in JobIds : CancelResume(n, j)
    \/ \E n \in NodeIds, j \in JobIds : SubmitResolve(n, j)
    \/ \E n \in NodeIds, j \in JobIds : StreamDone(n, j)

RunSpec == Init /\ [][RunNext]_vars

\* More blocks, run from the button and the queue only.
QueueNext ==
    \/ \E data \in QueueData : nextId < MaxQueued /\ AddTextBlock(data)
    \/ \E S \in SUBSET NodeIds : SetSelectedNodes(S)
    \/ \E n \in NodeIds : HandleRunClick(n)
    \/ \E n \in NodeIds : RunQueueEffect(n)
    \/ \E n \in NodeIds, j \in JobIds : SubmitResolve(n, j)
    \/ \E n \in NodeIds, j \in JobIds : StreamDone(n, j)

QueueSpec == Init /\ [][QueueNext]_vars

\* A saved block is loaded and its attached job recovered.
RecoveryNext ==
    \/ \E ns \in RecoveryDocs : LoadCanvas(ns, <<>>)
    \/ \E n \in NodeIds : RecoveryEffect(n)
    \/ \E n \in NodeIds, j \in JobIds : \E reply \in JobReplies(n, j) :
          RecoveryFetchResolve(n, j, reply)
    \/ \E n \in NodeIds, j \in JobIds : RecoveryFetchReject(n, j)
    \/ \E n \in NodeIds : RecoveryCleanup(n)
    \/ \E n \in NodeIds : RecoveryResetEffect(n)
    \/ \E n \in NodeIds, j \in JobIds, text \in ChunkTexts : StreamChunk(n, j, text)
    \/ \E n \in NodeIds, j \in JobIds : StreamDone(n, j)
    \/ \E n \in NodeIds, j \in JobIds : StreamError(n, j)
    \/ \E n \in NodeIds, j \in JobIds : StreamTransportError(n, j)

RecoverySpec == RecoveryInit /\ [][RecoveryNext]_vars

\* One block created with or without autoRun, run, cancelled, saved and
\* reloaded; user and server events wait for the effects of the last commit.
AutoRunNext ==
    \/ \E data \in JobData : nodes = <<>> /\ saved = <<>> /\ AddTextBlock(data)
    \/ \E n \in NodeIds : AutoRunEffect(n)
    \/ \E n \in NodeIds : EffectsSettled /\ HandleRunClick(n)
    \/ \E n \in NodeIds : EffectsSettled /\ HandleCancel(n)
    \/ \E n \in NodeIds, j \in JobIds : EffectsSettled /\ CancelResume(n, j)
    \/ \E n \in NodeIds, j \in JobIds : EffectsSettled /\ SubmitResolve(n, j)
    \/ \E n \in NodeIds, j \in JobIds : EffectsSettled /\ StreamDone(n, j)
    \/ SaveCanvas
    \/ Reload

AutoRunSpec == Init /\ [][AutoRunNext]_vars

\* Text and image blocks (and a loaded node of another type) are connected
\* and the inputs of a block are read.
InputNext ==
    \/ \E ns \in InputDocs : LoadCanvas(ns, <<>>)
    \/ \E data \in InputTextData : AddTextBlock(data)
    \/ \E data \in InputImageData : AddImageBlock(data)
    \/ \E s \in NodeIds, t \in NodeIds : OnConnect(s, t)
    \/ \E n \in NodeIds : ReadInputs(n)

InputSpec == Init /\ [][InputNext]_vars

\* A saved document, cyclic or not, is loaded and the lineage of its nodes
\* is read.
LineageNext ==
    \/ nodes = <<>> /\ \E es \in LineageDocs(MaxLoadedEdges) : LoadCanvas(LoadedNodes, es)
    \/ \E n \in LoadedIds : ReadLineage(n)

LineageSpec == Init /\ [][LineageNext]_vars

\* One block, its streams and the unsubscribe functions of its jobs.
StreamNext ==
    \/ \E data \in QueueData : nodes = <<>> /\ AddTextBlock(data)
    \/ \E n \in NodeIds : HandleRunClick(n)
    \/ \E n \in NodeIds, j \in JobIds : SubmitResolve(n, j)
    \/ \E n \in NodeIds, j \in JobIds, text \in ChunkTexts : StreamChunk(n, j, text)
    \/ \E n \in NodeIds, j \in JobIds : StreamDone(n, j)
    \/ \E n \in NodeIds, j \in JobIds : StreamError(n, j)
    \/ \E n \in NodeIds, j \in JobIds : StreamTransportError(n, j)
    \/ \E n \in NodeIds, j \in JobIds : Unsubscribe(n, j)
    \/ \E n \in NodeIds, j \in JobIds : StreamLateEvent(n, j)

StreamSpec == Init /\ [][StreamNext]_vars

\* Blocks created one from the other, each with its own jobs: every stream
\* event, the queue and cancel.
ScopeNext ==
    \/ \E data \in RunnableData : nodes = <<>> /\ AddTextBlock(data)
    \/ \E source \in NodeIdSet, data \in RunnableData :
          nextId < MaxBlocks /\ AddTextBlockWithEdge(source, data)
    \/ \E S \in SUBSET NodeIds : SetSelectedNodes(S)
    \/ \E n \in NodeIds : HandleRunClick(n)
    \/ \E n \in NodeIds : RunQueueEffect(n)
    \/ \E n \in NodeIds : HandleCancel(n)
    \/ \E n \in NodeIds, j \in JobIds : CancelResume(n, j)
    \/ \E n \in NodeIds, j \in JobIds : SubmitResolve(n, j)
    \/ \E n \in NodeIds, j \in JobIds, text \in ChunkTexts : StreamChunk(n, j, text)
    \/ \E n \in NodeIds, j \in JobIds : StreamDone(n, j)
    \/ \E n \in NodeIds, j \in JobIds : StreamError(n, j)
    \/ \E n \in NodeIds, j \in JobIds : StreamCancelled(n, j)
    \/ \E n \in NodeIds, j \in JobIds : StreamTransportError(n, j)

ScopeSpec == Init /\ [][ScopeNext]_vars

\* Blocks whose prompt is edited between runs: the run button, the run
\* queue and the auto-run effect.
PromptNext ==
    \/ \E data \in PromptData : nextId < MaxBlocks /\ AddTextBlock(data)
    \/ \E n \in NodeIds, value \in Prompts : HandlePromptChange(n, value)
    \/ \E S \in SUBSET NodeIds : SetSelectedNodes(S)
    \/ \E n \in NodeIds : HandleRunClick(n)
    \/ \E n \in NodeIds : RunQueueEffect(n)
    \/ \E n \in NodeIds : AutoRunEffect(n)
    \/ \E n \in NodeIds, j \in JobIds : SubmitResolve(n, j)
    \/ \E n \in NodeIds, j \in JobIds : StreamDone(n, j)
    \/ \E n \in NodeIds, j \in JobIds : StreamError(n, j)

PromptSpec == Init /\ [][PromptNext]_vars

\* A saved document is loaded and the cycle check is asked about every pair
\* of its nodes.
CycleNext ==
    \/ nodes = <<>> /\ \E es \in CycleDocs(MaxLoadedEdges) : LoadCanvas(LoadedNodes, es)
    \/ \E s \in LoadedIds, t \in LoadedIds : ReadWouldCreateCycle(s, t)

CycleSpec == Init /\ [][CycleNext]_vars

\* Blocks are run, cancelled and deleted while their jobs and streams go on.
DeleteNext ==
    \/ \E data \in RunnableData : nodes = <<>> /\ AddTextBlock(data)
    \/ \E source \in NodeIdSet, data \in RunnableData : AddTextBlockWithEdge(source, data)
    \/ \E n \in NodeIds : HandleDelete(n)
    \/ selectedNodeIds # << >> /\ DeleteSelectedNodes
    \/ \E n \in NodeIds : HandleRunClick(n)
    \/ \E n \in NodeIds : HandleCancel(n)
    \/ \E n \in NodeIds, j \in JobIds : CancelResume(n, j)
    \/ \E n \in NodeIds, j \in JobIds : SubmitResolve(n, j)
    \/ \E n \in NodeIds, j \in JobIds, text \in ChunkTexts : StreamChunk(n, j, text)
    \/ \E n \in NodeIds, j \in JobIds : StreamDone(n, j)
    \/ \E n \in NodeIds, j \in JobIds : StreamError(n, j)
    \/ \E n \in NodeIds, j \in JobIds : StreamCancelled(n, j)
    \/ \E n \in NodeIds, j \in JobIds : StreamTransportError(n, j)

DeleteSpec == Init /\ [][DeleteNext]_vars

\* One block, edited between and during its runs.
EditNext ==
    \/ \E data \in PromptData : nodes = <<>> /\ AddTextBlock(data)
    \/ \E n \in NodeIds, value \in Prompts : HandlePromptChange(n, value)
    \/ \E n \in NodeIds, value \in Contents : HandleContentChange(n, value)
    \/ \E n \in NodeIds : HandleRunClick(n)
    \/ \E n \in NodeIds, j \in JobIds : SubmitResolve(n, j)
    \/ \E n \in NodeIds, j \in JobIds : SubmitReject(n, j)
    \/ \E n \in NodeIds, j \in JobIds : StreamDone(n, j)
    \/ \E n \in NodeIds, j \in JobIds : StreamError(n, j)

EditSpec == Init /\ [][EditNext]_vars

\* The canvas is edited: blocks are added, alone or from the edge-drop menu
\* of a block on the canvas, connected, selected and deleted.
CanvasNext ==
    \/ \E data \in GraphData : AddTextBlock(data)
    \/ \E data \in CanvasImageData : AddImageBlock(data)
    \/ \E source \in NodeIdSet, data \in GraphData : AddTextBlockWithEdge(source, data)
    \/ \E source \in NodeIdSet, data \in CanvasImageData : AddImageBlockWithEdge(source, data)
    \/ \E s \in NodeIds, t \in NodeIds : OnConnect(s, t)
    \/ \E n \in NodeIds : DeleteNode(n)
    \/ DeleteSelectedNodes
    \/ \E S \in SUBSET NodeIds : SetSelectedNodes(S)

CanvasSpec == Init /\ [][CanvasNext]_vars

\* Blocks queued while they run: the queue is requested again, prompts are
\* blanked, jobs end.
HeldNext ==
    \/ \E data \in RunnableData : nextId < MaxQueued /\ AddTextBlock(data)
    \/ \E n \in NodeIds : HandlePromptChange(n, "")
    \/ \E S \in SUBSET NodeIds : Cardinality(S) = 2 /\ SetSelectedNodes(S)
    \/ \E n \in NodeIds : HandleRunClick(n)
    \/ \E n \in NodeIds : RunQueueEffect(n)
    \/ \E n \in NodeIds, j \in JobIds : SubmitResolve(n, j)
    \/ \E n \in NodeIds, j \in JobIds : StreamDone(n, j)
    \/ \E n \in NodeIds, j \in JobIds : StreamError(n, j)

HeldSpec == Init /\ [][HeldNext]_vars

\* Blocks are queued, run and deleted, by the Delete button or the Delete key.
QueueDeleteNext ==
    \/ \E data \in RunnableData : nextId < MaxBlocks /\ AddTextBlock(data)
    \/ \E S \in SUBSET NodeIds : SetSelectedNodes(S)
    \/ \E n \in NodeIds : HandleRunClick(n)
    \/ \E n \in NodeIds : RunQueueEffect(n)
    \/ \E n \in NodeIds : HandleDelete(n)
    \/ selectedNodeIds # << >> /\ DeleteSelectedNodes
    \/ \E n \in NodeIds, j \in JobIds : SubmitResolve(n, j)
    \/ \E n \in NodeIds, j \in JobIds : StreamDone(n, j)

QueueDeleteSpec == Init /\ [][QueueDeleteNext]_vars

(* --------------------- graph-theoretic vocabulary ---------------------- *)

\* the edge relation of an edge sequence
Rel(es) == { <<es[i].source, es[i].target>> : i \in DOMAIN es }

\* pairs <<a, b>> such that b is reachable from a by one to k+1 edges
RECURSIVE Closure(_, _)
Closure(R, k) ==
    IF k = 0 THEN R
    ELSE LET C == Closure(R, k - 1)
         IN  C \cup { <<x[1][1], x[2][2]>> : x \in { y \in C \X R : y[1][2] = y[2][1] } }

\* the pairs <<a, b>> with a path of one or more edges from a to b
Paths(es) == Closure(Rel(es), MaxNodes)

Acyclic(es) == LET P == Paths(es) IN \A n \in NodeIds : <<n, n>> \notin P

(* ------------------------------ claims --------------------------------- *)

ClosesCycle(P, source, target) == source = target \/ <<target, source>> \in P

KeepsExactly(s, t, Keep) ==
    /\ Len(t) = Cardinality(Keep)
    /\ \A i \in Keep : t[Cardinality({ j \in Keep : j <= i })] = s[i]

\* C4: deleteNode(n) removes n, exactly the edges incident to n and n from the
\* selection; every other node with its data, every other edge in its order,
\* every other selected id and the run queue stay.
DeleteNodeFrame ==
    [][ \A n \in NodeIds :
          DeleteNode(n) =>
          /\ KeepsExactly(nodes, nodes', { i \in DOMAIN nodes : nodes[i].id # n })
          /\ KeepsExactly(edges, edges',
                 { i \in DOMAIN edges : edges[i].source # n /\ edges[i].target # n })
          /\ KeepsExactly(selectedNodeIds, selectedNodeIds',
                 { i \in DOMAIN selectedNodeIds : selectedNodeIds[i] # n })
          /\ nodesToRun' = nodesToRun ]_vars

\* C4 witness: a node was deleted together with an edge incident to it, while
\* another edge, two other nodes and a selected id survive.
DeleteNodeFrameWitness ==
    /\ last.op = "deleteNode" /\ last.removed >= 1
    /\ Len(edges) >= 1
    /\ Len(nodes) >= 2
    /\ selectedNodeIds # <<>>

(* --------------------------- job vocabulary ---------------------------- *)

\* the jobs of block n the server holds Pending or Running
NonTerminalJobs(n) == { j \in DOMAIN jobs[n] : jobs[n][j].status = "active" }

\* the step sends a createTextJob request for block n
Submits(n) == Len(jobs'[n]) > Len(jobs[n])

AtMostOneNonTerminalJob ==
    \A n \in NodeIds : Cardinality(NonTerminalJobs(n)) <= 1

\* C6: no step (run click, run-queue drain, auto-run) sends a createTextJob
\* request for a block that is running before the step.
NoSubmitWhileRunning ==
    [][ \A n \in NodeIds :
          Submits(n) => (n \in NodeIdSet /\ NodeOf(n).status # "running") ]_vars

\* C6 witness: a running block with its job in flight sits in the run queue,
\* held back by the status gate.
NoSubmitWhileRunningWitness ==
    \E n \in NodeIdSet :
        /\ NodeOf(n).status = "running"
        /\ Includes(nodesToRun, n)
        /\ NonTerminalJobs(n) # {}

NoDoneAfterCancel ==
    [][ \A n \in NodeIds, j \in JobIds :
          (j \in cancelInvoked[n] /\ StreamDone(n, j))
          => /\ NodeIn(nodes', n).status # "success"
             /\ NodeIn(nodes', n).content = NodeOf(n).content ]_vars

\* C9: a chunk event leaves the block's content equal to the chunk's text, and
\* a done event leaves the content equal to the result text, the status
\* success and the jobId unset.
StreamReplacesContent ==
    [][ last'.op \in {"onChunk", "onDone"} =>
        \A n \in NodeIds, j \in JobIds :
          /\ \A text \in ChunkTexts :
                StreamChunk(n, j, text) => NodeIn(nodes', n).content = text
          /\ StreamDone(n, j)
             => /\ NodeIn(nodes', n).content = DoneText
                /\ NodeIn(nodes', n).status = "success"
                /\ NodeIn(nodes', n).jobId = NoJob ]_vars

\* C9 witness: the chunk "Hello" has just arrived at a block showing "Hel" and
\* the block shows "Hello".
StreamReplacesContentWitness ==
    /\ last.op = "onChunk" /\ last.before = "Hel" /\ last.text = "Hello"
    /\ \E n \in NodeIdSet : NodeOf(n).content = "Hello" /\ NodeOf(n).status = "running"

\* C10: the handler of a done, error or cancelled event and of a transport
\* failure leaves the block's jobId unset.
TerminalEventClearsJobId ==
    [][ last'.op \in {"onDone", "onError", "onCancelled", "onTransportError"} =>
        \A n \in NodeIds, j \in JobIds :
          (StreamDone(n, j) \/ StreamError(n, j) \/ StreamCancelled(n, j)
             \/ StreamTransportError(n, j))
          => NodeIn(nodes', n).jobId = NoJob ]_vars

\* C10 witness: a transport failure has just been handled as an error and the
\* block has no jobId.
TerminalEventClearsJobIdWitness ==
    /\ last.op = "onTransportError"
    /\ \E n \in NodeIdSet :
          /\ NodeOf(n).status = "error"
          /\ NodeOf(n).error = "Connection error"
          /\ NodeOf(n).jobId = NoJob

(* -------------------------- recovery vocabulary ------------------------ *)

\* every answer getJob can give
AllReplies == [status : {"active", "completed", "failed", "cancelled"}, result : BOOLEAN]

\* C11 as stated: a recovery fetches the status once; a completed, failed or
\* cancelled answer gets the done, error or cancelled handling and no stream, a
\* pending or running answer gets exactly one subscription, and no job is
\* submitted.
RecoveryAppliesStatus ==
    [][ last'.op = "recoveryFetchResolve" =>
        \A n \in NodeIds, j \in JobIds, reply \in AllReplies :
          RecoveryFetchResolve(n, j, reply) =>
            /\ recoveryFetched[n] = 1
            /\ reply.status = "completed"
                 => (nodes' = OnDone(nodes, n, DoneText) /\ jobs' = jobs)
            /\ reply.status = "failed"
                 => (nodes' = OnError(nodes, n, JobError) /\ jobs' = jobs)
            /\ reply.status = "cancelled"
                 => (nodes' = OnCancelled(nodes, n) /\ jobs' = jobs)
            /\ reply.status = "active"
                 => /\ jobs'[n][j].stream = "open"
                    /\ recoverySubscribed'[n] = recoverySubscribed[n] + 1
                    /\ nodes' = nodes
            /\ \A m \in NodeIds : Len(jobs'[m]) = Len(jobs[m]) ]_vars

\* C12: a block issues at most one getJob and opens at most one recovery stream
\* for its attached job however often it is rendered; the guard flag goes up in
\* the step that issues the getJob and comes down only with no job attached.
RecoveryStartedOnce ==
    [][ \A n \in NodeIds :
          /\ recoveryFetched'[n] <= 1
          /\ recoverySubscribed'[n] <= 1
          /\ recoveryFetched'[n] # recoveryFetched[n]
               => (~jobRecoveryAttempted[n] /\ jobRecoveryAttempted'[n])
          /\ (jobRecoveryAttempted[n] /\ ~jobRecoveryAttempted'[n])
               => (n \in NodeIdSet /\ NodeOf(n).jobId = NoJob) ]_vars

\* C12 witness: a chunk of the recovery stream has just been written to the
\* block, which is rendered again with its job attached and the flag up, after
\* one getJob and one subscription.
RecoveryStartedOnceWitness ==
    /\ last.op = "onChunk"
    /\ jobRecoveryAttempted[1]
    /\ NodeOf(1).jobId = 1
    /\ recoveryFetched[1] = 1
    /\ recoverySubscribed[1] = 1

\* C13: a block whose status is running begins no execution from the run
\* queue, even while its id is in nodesToRun: a step of the run-queue effect
\* leaves such a block in the queue, submits no job for it and does not write
\* its node.
RunningNeverDrained ==
    [][ last'.op = "runQueueEffect" =>
        \A n \in NodeIdSet :
          NodeOf(n).status = "running" =>
            /\ jobs'[n] = jobs[n]
            /\ drained'[n] = drained[n]
            /\ NodeIn(nodes', n) = NodeOf(n)
            /\ Includes(nodesToRun, n) => Includes(nodesToRun', n) ]_vars

\* the queue has been drained for one block while another, running, is queued
RunningNeverDrainedWitness ==
    /\ last.op = "runQueueEffect"
    /\ \E n \in NodeIdSet, m \in NodeIdSet :
         /\ n # m
         /\ drained[n] = 1
         /\ NodeOf(m).status = "running"
         /\ Includes(nodesToRun, m)
         /\ drained[m] = 0

\* C14: a block created with autoRun set starts its run from the auto-run
\* effect exactly once: while the flag is set the effect is due (the block is
\* idle, its mount has not triggered, nothing has auto-run yet); the step that
\* triggers clears the flag; and no later render, return to idle or reload of
\* the saved document triggers a second time.
AutoRunOnce ==
    [][ \A n \in NodeIdSet :
          /\ autoRuns[n] <= 1
          /\ NodeOf(n).autoRun =>
               /\ autoRuns[n] = 0
               /\ ~autoRunTriggered[n]
               /\ NodeOf(n).status = "idle"
          /\ autoRuns'[n] # autoRuns[n] =>
               /\ NodeOf(n).autoRun
               /\ NodeOf(n).status = "idle"
               /\ ~NodeIn(nodes', n).autoRun
               /\ autoRuns'[n] = 1
               /\ Trim(NodeOf(n).prompt) # "" => Len(jobs'[n]) = Len(jobs[n]) + 1
          /\ (~NodeOf(n).autoRun /\ n \in { nodes'[i].id : i \in DOMAIN nodes' }) =>
               ~NodeIn(nodes', n).autoRun ]_vars

\* the block has auto-run once, come back to idle, been saved and reloaded
AutoRunOnceWitness ==
    /\ last.op = "reload"
    /\ \E n \in NodeIdSet :
         /\ autoRuns[n] = 1
         /\ NodeOf(n).status = "idle"
         /\ ~autoRunTriggered[n]
         /\ Len(jobs[n]) >= 1

\* C15: requestRunForNodes(ids) sets the run queue to exactly ids: after a
\* run click on a multi-selection the queue is the selection, and every id
\* that was queued before and is not selected is gone from it.
RequestReplacesQueue ==
    [][ (last'.op = "handleRunClick" /\ last'.queued) =>
          /\ nodesToRun' = selectedNodeIds
          /\ \A id \in Range(nodesToRun) :
               ~Includes(selectedNodeIds, id) => ~Includes(nodesToRun', id) ]_vars

\* a second request has dropped a block the first had queued and that had
\* not been drained, being still running
RequestReplacesQueueWitness ==
    /\ last.op = "handleRunClick"
    /\ last.queued
    /\ \E m \in last.dropped :
         /\ m \in NodeIdSet
         /\ NodeOf(m).status = "running"
         /\ drained[m] = 0
         /\ ~Includes(nodesToRun, m)

\* the ids of the nodes with an edge into id
InputNodeIds(id) ==
    { e.source : e \in { x \in Range(edges) : x.target = id } } \cap NodeIdSet

\* the sources of the edges into id, in the order the edges were inserted
InputsInEdgeOrder(id) ==
    LET inputEdges == SelectSeq(edges, LAMBDA edge : edge.target = id)
    IN [ i \in DOMAIN inputEdges |-> NodeOf(inputEdges[i].source) ]

\* the item an input node contributes: none, or one text or image item
ItemsFor(node) ==
    IF node.type = "text" /\ Trim(node.content) # ""
    THEN { [type |-> "text", content |-> Trim(node.content)] }
    ELSE IF node.type = "image" /\ node.imageUrl # ""
    THEN { [type |-> "image", url |-> node.imageUrl] }
    ELSE {}

RECURSIVE ItemsInOrder(_, _)
ItemsInOrder(blocks, i) ==
    IF i > Len(blocks) THEN << >>
    ELSE (IF ItemsFor(blocks[i]) = {} THEN << >>
          ELSE << CHOOSE it \in ItemsFor(blocks[i]) : TRUE >>)
         \o ItemsInOrder(blocks, i + 1)

\* C16 as stated: getInputBlocks returns the nodes with an edge into the block
\* in the order those edges were inserted, and getInputBlockContent emits its
\* items in that same order.
InputsInEdgeInsertionOrder ==
    last.op = "getInputBlockContent" =>
        /\ last.blocks = InputsInEdgeOrder(last.node)
        /\ last.items = ItemsInOrder(InputsInEdgeOrder(last.node), 1)

\* C17: getInputBlockContent holds one text item, with the trimmed content,
\* for each input text node whose trimmed content is not empty, one image item
\* for each input image node with an imageUrl, nothing for any other input
\* node, and is the empty list when the block has no inputs.
InputContentItems ==
    last.op = "getInputBlockContent" =>
        LET contributors == { n \in InputNodeIds(last.node) : ItemsFor(NodeOf(n)) # {} }
            values == UNION { ItemsFor(NodeOf(n)) : n \in contributors }
        IN /\ Len(last.items) = Cardinality(contributors)
           /\ Range(last.items) = values
           /\ \A v \in values :
                Cardinality({ i \in DOMAIN last.items : last.items[i] = v })
                  = Cardinality({ n \in contributors : ItemsFor(NodeOf(n)) = {v} })
           /\ InputNodeIds(last.node) = {} => last.items = << >>

\* a block with a padded text input and an input of another type has been
\* read: one trimmed text item
InputContentItemsWitness ==
    /\ last.op = "getInputBlockContent"
    /\ last.items = << [type |-> "text", content |-> "Hi"] >>
    /\ Len(last.blocks) = 2
    /\ \E b \in Range(last.blocks) : b.type = "group"

\* no path of one or more edges leads from a node back to itself
HasNoCycle(es) == \A p \in Closure(Rel(es), Len(es)) : p[1] # p[2]

\* each element of the sequence occurs in it once
ListedOnce(s) == \A i \in DOMAIN s, j \in DOMAIN s : s[i] = s[j] => i = j

\* the diamond 1 -> 2 -> 4, 1 -> 3 -> 4
Diamond == { <<1, 2>>, <<2, 4>>, <<1, 3>>, <<3, 4>> }

\* C18: on an acyclic graph the ancestors and the descendants of a node n
\* each exclude n and have no node in common, and for the diamond
\* A -> B -> D, A -> C -> D the ancestors of D are A, B and C, each listed
\* once.
LineageExcludesSelf ==
    (last.op = "getLineage" /\ HasNoCycle(edges)) =>
        LET l == last.lineage
        IN /\ last.node \notin Range(l.ancestors)
           /\ last.node \notin Range(l.descendants)
           /\ Range(l.ancestors) \cap Range(l.descendants) = {}
           /\ ListedOnce(l.ancestors)
           /\ ListedOnce(l.descendants)
           /\ (Rel(edges) = Diamond /\ last.node = 4) =>
                 (Range(l.ancestors) = {1, 2, 3} /\ Len(l.ancestors) = 3)

\* the lineage of the sink of the diamond has been read
LineageExcludesSelfWitness ==
    /\ last.op = "getLineage"
    /\ Rel(edges) = Diamond
    /\ last.node = 4
    /\ Len(last.lineage.ancestors) = 3
    /\ last.lineage.descendants = << >>

\* the number of times node is in the sequence
Visits(s, node) == Cardinality({ i \in DOMAIN s : s[i] = node })

\* C19 as stated: getLineage terminates on every edge set, with or without a
\* cycle, and visits each node at most once in each direction.
LineageVisitsOnce ==
    last.op = "getLineage" =>
        /\ last.lineage.done
        /\ \A n \in LoadedIds :
             /\ Visits(last.lineage.visitedBack, n) <= 1
             /\ Visits(last.lineage.visitedForward, n) <= 1

\* C19 amended: getLineage terminates on every edge set, with or without a
\* cycle; in each direction every other node is visited at most once, and the
\* start node once, or twice when it lies on a cycle (it is then found as
\* its own ancestor and descendant and taken off the queue a second time).
LineageTerminates ==
    last.op = "getLineage" =>
        LET l == last.lineage
            onCycle == <<last.node, last.node>> \in Closure(Rel(edges), Len(edges))
        IN /\ l.done
           /\ \A n \in LoadedIds \ {last.node} :
                /\ Visits(l.visitedBack, n) <= 1
                /\ Visits(l.visitedForward, n) <= 1
           /\ Visits(l.visitedBack, last.node) = IF onCycle THEN 2 ELSE 1
           /\ Visits(l.visitedForward, last.node) = IF onCycle THEN 2 ELSE 1
           /\ onCycle <=> last.node \in Range(l.ancestors)

\* the lineage of a node on a loaded three-node cycle has been read
LineageTerminatesWitness ==
    /\ last.op = "getLineage"
    /\ last.lineage.done
    /\ Rel(edges) = { <<1, 2>>, <<2, 3>>, <<3, 1>> }
    /\ last.node = 1
    /\ Range(last.lineage.ancestors) = {1, 2, 3}

\* C20: the cancelled event of a block's job leaves the block idle, not in
\* error, with no error message and no jobId.
CancelledEventIdles ==
    [][ last'.op = "onCancelled" =>
        \A n \in NodeIds, j \in JobIds :
          StreamCancelled(n, j) =>
            /\ NodeIn(nodes', n).status = "idle"
            /\ NodeIn(nodes', n).error = NoError
            /\ NodeIn(nodes', n).jobId = NoJob ]_vars

\* the cancelled event of a running block's job has just been handled
CancelledEventIdlesWitness ==
    /\ last.op = "onCancelled"
    /\ \E n \in NodeIdSet, j \in JobIds :
          /\ j \in DOMAIN jobs[n]
          /\ jobs[n][j] = [status |-> "cancelled", stream |-> "closed"]
          /\ j \in cancelInvoked[n]
          /\ NodeOf(n).status = "idle"
          /\ NodeOf(n).error = NoError
          /\ NodeOf(n).jobId = NoJob

\* C21: an error event of a block's job, carrying a message, leaves the block
\* in status error with that message as its error and with no jobId.
ErrorEventSurfaced ==
    [][ last'.op = "onError" =>
        \A n \in NodeIds, j \in JobIds :
          StreamError(n, j) =>
            /\ NodeIn(nodes', n).status = "error"
            /\ NodeIn(nodes', n).error = last'.error
            /\ NodeIn(nodes', n).jobId = NoJob ]_vars

\* the error event of a running block's job has just been handled, after a
\* chunk had been shown
ErrorEventSurfacedWitness ==
    /\ last.op = "onError"
    /\ last.error = "quota"
    /\ \E n \in NodeIdSet, j \in JobIds :
          /\ j \in DOMAIN jobs[n]
          /\ jobs[n][j] = [status |-> "failed", stream |-> "closed"]
          /\ NodeOf(n).status = "error"
          /\ NodeOf(n).error = "quota"
          /\ NodeOf(n).jobId = NoJob
          /\ NodeOf(n).content = "Hel"

\* C22 as stated: when the transport of an open stream fails, the error
\* handler is called with "Connection lost" and with no other message, and
\* the stream is closed.
TransportFailureIsConnectionLost ==
    [][ last'.op = "onTransportError" =>
        /\ last'.calls = << "Connection lost" >>
        /\ \A n \in NodeIds, j \in JobIds :
             StreamTransportError(n, j) =>
               /\ NodeIn(nodes', n).error = "Connection lost"
               /\ jobs'[n][j].stream = "closed" ]_vars

\* C23: the unsubscribe function of a subscription always leaves the stream
\* closed, and calling it again, or after a terminal event has closed the
\* stream, changes nothing: the effect of two calls is that of one.
UnsubscribeIdempotent ==
    [][ last'.op = "unsubscribe" =>
        \A n \in NodeIds, j \in JobIds :
          Unsubscribe(n, j) =>
            /\ jobs'[n][j].stream = "closed"
            /\ jobs[n][j].stream = "closed" => jobs' = jobs
            /\ CloseStream(jobs'[n], j) = jobs'[n]
            /\ nodes' = nodes ]_vars

\* the function has been called a second time in a row, on a stream a done
\* event had closed
UnsubscribeIdempotentWitness ==
    /\ last.op = "unsubscribe"
    /\ last.repeated
    /\ last.before = "closed"
    /\ \E n \in NodeIdSet, j \in JobIds :
          /\ j \in DOMAIN jobs[n]
          /\ jobs[n][j] = [status |-> "completed", stream |-> "closed"]

\* the step ends a handleCancel of block n: the one without a jobId runs
\* through, the one with a jobId resumes when cancelJob has settled
CancelEnds(n) ==
    \/ HandleCancel(n) /\ ~last'.awaiting
    \/ \E j \in JobIds : CancelResume(n, j)

\* C24 as stated: a cancel of a running block ends, whether cancelJob
\* succeeded or failed, with no subscription of the block open, its jobId
\* unset and its status idle without error.
CancelEndsIdleAndClosed ==
    [][ last'.op \in {"handleCancel", "cancelResume"} =>
        \A n \in NodeIds :
          CancelEnds(n) =>
            /\ NodeIn(nodes', n).status = "idle"
            /\ NodeIn(nodes', n).error = NoError
            /\ NodeIn(nodes', n).jobId = NoJob
            /\ cleanupRef'[n] = NoJob
            /\ \A j \in DOMAIN jobs'[n] : jobs'[n][j].stream # "open" ]_vars

\* the step handles an event of the stream of job j of block n
JobEvent(n, j) ==
    \/ \E text \in ChunkTexts : StreamChunk(n, j, text)
    \/ StreamDone(n, j)
    \/ StreamError(n, j)
    \/ StreamCancelled(n, j)
    \/ StreamTransportError(n, j)

\* C25: handling an error, or any other event, of a job of block n changes
\* the data of n only: every other node, the other blocks' jobs, the edges and
\* the run queue are as before.
JobEventScopedToNode ==
    [][ last'.op \in {"onChunk", "onDone", "onError", "onCancelled", "onTransportError"} =>
        \A n \in NodeIds, j \in JobIds :
          JobEvent(n, j) =>
            /\ Len(nodes') = Len(nodes)
            /\ \A i \in DOMAIN nodes : nodes[i].id # n => nodes'[i] = nodes[i]
            /\ \A m \in NodeIds \ {n} : jobs'[m] = jobs[m] /\ cleanupRef'[m] = cleanupRef[m]
            /\ edges' = edges
            /\ nodesToRun' = nodesToRun ]_vars

\* the job of one block has just failed while a connected block is running
\* with a chunk shown and is waiting in the run queue
JobEventScopedToNodeWitness ==
    /\ last.op = "onError"
    /\ edges # << >>
    /\ \E n \in NodeIdSet, m \in NodeIdSet :
          /\ n # m
          /\ NodeOf(n).status = "error"
          /\ NodeOf(m).status = "running"
          /\ NodeOf(m).jobId # NoJob
          /\ NodeOf(m).content = "Hel"
          /\ Includes(nodesToRun, m)

\* C26 as stated: a block's status becomes success only in a step that finds
\* it running; no step takes a block from idle to success.
SuccessOnlyFromRunning ==
    [][ \A i \in DOMAIN nodes :
          (i \in DOMAIN nodes' /\ nodes'[i].id = nodes[i].id
             /\ nodes'[i].status = "success" /\ nodes[i].status # "success")
          => nodes[i].status = "running" ]_vars

\* C27: once a done, error or cancelled event of a job has been handled, or
\* the client has closed the subscription, no event of that job runs a
\* handler or changes the node: a handler runs only on an open stream, a
\* terminal handler leaves it closed, a closed stream is never open again,
\* and an event that arrives later changes nothing.  So each subscription
\* makes at most one terminal handler call.
NoEventAfterClose ==
    [][ /\ \A n \in NodeIds : \A j \in DOMAIN jobs[n] :
             jobs[n][j].stream = "closed" => jobs'[n][j].stream = "closed"
        /\ last'.op \in {"onChunk", "onDone", "onError", "onCancelled", "onTransportError"} =>
             \A n \in NodeIds, j \in JobIds :
               JobEvent(n, j) =>
                 /\ jobs[n][j].stream = "open"
                 /\ last'.op # "onChunk" => jobs'[n][j].stream = "closed"
        /\ last'.op = "eventDropped" => (nodes' = nodes /\ jobs' = jobs) ]_vars

\* a later event of a job whose error event had been handled has just been
\* dropped, the block still showing that error
NoEventAfterCloseWitness ==
    /\ last.op = "eventDropped"
    /\ \E n \in NodeIdSet :
          /\ last.job \in DOMAIN jobs[n]
          /\ jobs[n][last.job] = [status |-> "failed", stream |-> "closed"]
          /\ NodeOf(n).status = "error"
          /\ NodeOf(n).error \in JobErrors

\* the run queue effect or the auto-run effect has just called handleRun of
\* block n
RunTriggered(n) == RunQueueEffect(n) \/ AutoRunEffect(n)

\* C28: a run triggered on a block whose prompt is empty or whitespace only
\* is a no-op: the block keeps its status, content, error and jobId, no job
\* is submitted and no stream is touched.  The run button is disabled on
\* such a block, so the trigger comes from the run queue or from auto-run.
EmptyPromptRunIsNoOp ==
    [][ last'.op \in {"runQueueEffect", "autoRunEffect"} =>
          \A n \in NodeIdSet :
            (Trim(NodeOf(n).prompt) = "" /\ RunTriggered(n)) =>
               /\ NodeIn(nodes', n).status = NodeOf(n).status
               /\ NodeIn(nodes', n).content = NodeOf(n).content
               /\ NodeIn(nodes', n).error = NodeOf(n).error
               /\ NodeIn(nodes', n).jobId = NodeOf(n).jobId
               /\ jobs' = jobs
               /\ cleanupRef' = cleanupRef ]_vars

\* a block that failed, whose prompt was then blanked, has been taken off the
\* run queue and still shows its error and content, no second job submitted
EmptyPromptRunIsNoOpWitness ==
    /\ last.op = "runQueueEffect"
    /\ \E n \in NodeIdSet :
          /\ NodeOf(n).prompt = " "
          /\ NodeOf(n).status = "error"
          /\ NodeOf(n).error \in JobErrors
          /\ drained[n] > 0
          /\ ~Includes(nodesToRun, n)
          /\ Len(jobs[n]) = 1

\* C29: on an acyclic edge list, wouldCreateCycle(s, t) is true exactly when
\* s = t or s is reachable from t, which is exactly when the edges with
\* s -> t added contain a cycle; so no edge that keeps the graph acyclic is
\* refused.
CycleCheckExact ==
    (last.op = "wouldCreateCycle" /\ HasNoCycle(edges)) =>
        LET s == last.source
            t == last.target
        IN  /\ last.result <=>
                  (s = t \/ <<t, s>> \in Closure(Rel(edges), Len(edges)))
            /\ last.result <=>
                  ~HasNoCycle(Append(edges, [source |-> s, target |-> t]))

\* an edge between two nodes already joined by a two-edge path, closing a
\* diamond side, has just been let through
CycleCheckExactWitness ==
    /\ last.op = "wouldCreateCycle"
    /\ HasNoCycle(edges)
    /\ Len(edges) >= 3
    /\ ~last.result
    /\ last.source # last.target
    /\ <<last.source, last.target>> \in Closure(Rel(edges), Len(edges))
    /\ <<last.source, last.target>> \notin Rel(edges)

\* a refusal three edges away: the target reaches the source through two
\* other nodes
CycleCheckRefusalWitness ==
    /\ last.op = "wouldCreateCycle"
    /\ HasNoCycle(edges)
    /\ last.result
    /\ last.source # last.target
    /\ <<last.target, last.source>> \in Closure(Rel(edges), Len(edges))
    /\ <<last.target, last.source>> \notin Closure(Rel(edges), 1)

\* C30: for every node n, on every graph, the ancestors listed by
\* getLineage(n) are exactly the nodes from which n is reachable by one or
\* more edges, the descendants exactly the nodes reachable from n by one or
\* more edges, and each list names a node once.
LineageIsTransitiveClosure ==
    last.op = "getLineage" =>
        LET l == last.lineage
            reach == Closure(Rel(edges), Len(edges))
        IN /\ Range(l.ancestors) = { a \in LoadedIds : <<a, last.node>> \in reach }
           /\ Range(l.descendants) = { d \in LoadedIds : <<last.node, d>> \in reach }
           /\ ListedOnce(l.ancestors)
           /\ ListedOnce(l.descendants)

\* the lineage of a node inside a chain has been read: an ancestor that is
\* not its neighbour is listed, and a descendant
LineageIsTransitiveClosureWitness ==
    /\ last.op = "getLineage"
    /\ HasNoCycle(edges)
    /\ \E a \in Range(last.lineage.ancestors) : <<a, last.node>> \notin Rel(edges)
    /\ last.lineage.descendants # << >>

\* C31: a run click on block n while more than one id is selected and n is
\* among them sets the run queue to exactly the selected ids and does not
\* run n itself (no node written, no job submitted); every other run click
\* runs n directly (n is set running and its job submitted) and leaves the
\* run queue as it was.
RunClickQueuesOrRuns ==
    [][ last'.op = "handleRunClick" =>
          \A n \in NodeIdSet :
            HandleRunClick(n) =>
              IF Len(selectedNodeIds) > 1 /\ Includes(selectedNodeIds, n)
              THEN /\ nodesToRun' = selectedNodeIds
                   /\ nodes' = nodes
                   /\ jobs' = jobs
              ELSE /\ nodesToRun' = nodesToRun
                   /\ Submits(n)
                   /\ NodeIn(nodes', n).status = "running"
                   /\ \A m \in NodeIdSet \ {n} : ~Submits(m) ]_vars

\* with two other blocks selected and queued, a click has run a third block
\* directly: the queue still holds the two
RunClickQueuesOrRunsWitness ==
    /\ last.op = "handleRunClick"
    /\ ~last.queued
    /\ Len(selectedNodeIds) = 2
    /\ nodesToRun = selectedNodeIds
    /\ \E n \in NodeIdSet :
          /\ ~Includes(selectedNodeIds, n)
          /\ NodeOf(n).status = "running"
          /\ Len(jobs[n]) = 1
          /\ jobs[n][1].status = "submitting"

\* C32: deleteNode(n), like deleteSelectedNodes, sends no cancel request and
\* leaves the jobs of n and their streams as they are; every chunk, done,
\* error or cancelled event of a job of a deleted block, and a transport
\* failure of its stream, leaves the nodes and the edges of the store
\* unchanged: the block is not created again and no other node is written.
DeletedNodeJobGoesOn ==
    [][ /\ last'.op \in {"deleteNode", "deleteSelectedNodes"} =>
              (cancelCalls' = cancelCalls /\ jobs' = jobs /\ cleanupRef' = cleanupRef)
        /\ last'.op \in {"onChunk", "onDone", "onError", "onCancelled", "onTransportError"} =>
              \A n \in NodeIds \ NodeIdSet, j \in JobIds :
                JobEvent(n, j) => (nodes' = nodes /\ edges' = edges) ]_vars

\* deleteNode has just removed a block whose job the server is running, its
\* stream open and no cancel request sent; another block stays
DeletedNodeJobGoesOnWitness ==
    /\ last.op = "deleteNode"
    /\ nodes # << >>
    /\ \E n \in (1..nextId) \ NodeIdSet :
          /\ jobs[n] = << [status |-> "active", stream |-> "open"] >>
          /\ cancelCalls[n] = {}

\* the only job there is, of a block deleted while it ran, has just
\* completed: two connected blocks are in the store, idle as before
DeletedNodeEventWitness ==
    /\ last.op = "onDone"
    /\ \E n \in (1..nextId) \ NodeIdSet :
          /\ jobs[n] = << [status |-> "completed", stream |-> "closed"] >>
          /\ cancelCalls[n] = {}
          /\ \A m \in NodeIds \ {n} : jobs[m] = << >>
    /\ Len(nodes) = 2
    /\ edges # << >>
    /\ \A i \in DOMAIN nodes : nodes[i].status = "idle"

\* the step is an edit of the prompt or the content of block n
Edits(n) ==
    \/ \E value \in Prompts : HandlePromptChange(n, value)
    \/ \E value \in Contents : HandleContentChange(n, value)

\* C33 as stated: an edit of the prompt or the content of a block in status
\* error returns the block to idle, and a block leaves status error only by
\* such an edit or by a new run.
ErrorClearedByEdit ==
    [][ /\ last'.op \in {"handlePromptChange", "handleContentChange"} =>
              \A n \in NodeIdSet :
                (Edits(n) /\ NodeOf(n).status = "error") =>
                    NodeIn(nodes', n).status = "idle"
        /\ \A n \in NodeIdSet :
              (NodeOf(n).status = "error" /\ n \in NodeIdSet'
                 /\ NodeIn(nodes', n).status # "error") =>
                    (Edits(n) \/ Submits(n)) ]_vars

\* the step ends the getJob of block n for job j, resolved or rejected
RecoveryFetchEnds(n, j) ==
    j \in recoveryFetches[n] /\ j \notin recoveryFetches'[n]

\* the step calls the done, the error or the cancelled handler of block n
RecoveryHandled(n) ==
    \/ nodes' = OnDone(nodes, n, DoneText)
    \/ nodes' = OnCancelled(nodes, n)
    \/ \E message \in JobErrors \cup {"Failed to recover job"} :
          nodes' = OnError(nodes, n, message)

\* the step opens a subscription to job j of block n
RecoverySubscribes(n, j) ==
    /\ recoverySubscribed'[n] = recoverySubscribed[n] + 1
    /\ jobs[n][j].stream # "open"
    /\ jobs'[n][j].stream = "open"

\* C34 as stated: whatever getJob answers, and when it fails, the recovery
\* attempt ends having either called one of the done, error and cancelled
\* handlers or opened one subscription, never neither and never both.
RecoveryAlwaysActs ==
    [][ last'.op \in {"recoveryFetchResolve", "recoveryFetchReject"} =>
          \A n \in NodeIdSet, j \in JobIds :
            RecoveryFetchEnds(n, j) =>
              (RecoveryHandled(n) /\ ~RecoverySubscribes(n, j))
                 # (RecoverySubscribes(n, j) /\ nodes' = nodes) ]_vars

\* C35: after any sequence of addTextBlock, addImageBlock, onConnect between
\* nodes of the store, add-with-edge from a node of the store, deleteNode and
\* deleteSelectedNodes, the source and the target of every edge are ids of
\* nodes in the store.
NoDanglingEdges ==
    \A i \in DOMAIN edges :
        edges[i].source \in NodeIdSet /\ edges[i].target \in NodeIdSet

\* deleteSelectedNodes has just removed a selected node together with an edge
\* at it, and an edge between two nodes that stay is left
NoDanglingEdgesWitness ==
    /\ last.op = "deleteSelectedNodes"
    /\ last.deleted >= 1
    /\ last.removed >= 1
    /\ Len(edges) >= 1
    /\ Len(nodes) >= 2

\* the step adds a block with an edge from the block source
AddsWithEdge(source) ==
    \/ \E data \in GraphData : AddTextBlockWithEdge(source, data)
    \/ \E data \in CanvasImageData : AddImageBlockWithEdge(source, data)

\* C36: addTextBlockWithEdge / addImageBlockWithEdge from block source adds
\* one node with a new id after the nodes there are, and one edge from source
\* to it after the edges there are, which stay as they are and in their
\* order; the selection becomes the new node alone; the new node has no
\* outgoing edge, and edges without a cycle stay without one.
AddWithEdgeFrame ==
    [][ last'.op \in {"addTextBlockWithEdge", "addImageBlockWithEdge"} =>
          \A source \in NodeIdSet :
            AddsWithEdge(source) =>
              LET new == nodes'[Len(nodes')].id
              IN /\ Len(nodes') = Len(nodes) + 1
                 /\ SubSeq(nodes', 1, Len(nodes)) = nodes
                 /\ new \notin NodeIdSet
                 /\ Len(edges') = Len(edges) + 1
                 /\ SubSeq(edges', 1, Len(edges)) = edges
                 /\ edges'[Len(edges')] = [source |-> source, target |-> new]
                 /\ selectedNodeIds' = <<new>>
                 /\ \A i \in DOMAIN edges' : edges'[i].source # new
                 /\ HasNoCycle(edges) => HasNoCycle(edges') ]_vars

\* an image block has just been added from a block that already had an edge
\* to another block, and is the selection
AddWithEdgeFrameWitness ==
    /\ last.op = "addImageBlockWithEdge"
    /\ Len(edges) = 2
    /\ edges[1].source = edges[2].source
    /\ edges[1].target # edges[2].target
    /\ nodes[Len(nodes)].type = "image"
    /\ selectedNodeIds = <<nodes[Len(nodes)].id>>

\* the step is a run click that hands the selection to requestRunForNodes
RequestsRun == last'.op = "handleRunClick" /\ last'.queued

\* C37 as stated: a block queued while it is running stays in the queue, and
\* the first time its run-queue effect sees it not running the block leaves
\* the queue and begins exactly one new execution.
HeldRunsOnceAsStated ==
    [][ \A n \in NodeIdSet :
          /\ (n \in held /\ NodeOf(n).status = "running")
                => Includes(nodesToRun', n)
          /\ (n \in held /\ RunQueueEffect(n))
                => /\ ~Includes(nodesToRun', n)
                   /\ Len(jobs'[n]) = Len(jobs[n]) + 1
                   /\ NodeIn(nodes', n).status = "running" ]_vars

\* C37: a block queued while it is running stays in the queue until a later
\* requestRunForNodes replaces the queue; while it waits there its effect is
\* due as soon as it is not running; and the first effect that sees it not
\* running takes it off the queue and calls its run action once, which
\* begins exactly one execution when the trimmed prompt is not empty and
\* none when it is.
HeldRunsOnce ==
    [][ \A n \in NodeIdSet :
          /\ n \in held => Includes(nodesToRun, n)
          /\ (Includes(nodesToRun, n) /\ NodeOf(n).status = "running")
                => IF RequestsRun
                   THEN nodesToRun' = selectedNodeIds
                   ELSE Includes(nodesToRun', n) /\ (n \in held => n \in held')
          /\ (last'.op = "runQueueEffect" /\ n \in held /\ RunQueueEffect(n))
                => /\ NodeOf(n).status # "running"
                   /\ ~Includes(nodesToRun', n)
                   /\ \A m \in NodeIds \ {n} : jobs'[m] = jobs[m]
                   /\ IF Trim(NodeOf(n).prompt) = ""
                      THEN jobs' = jobs /\ nodes' = nodes
                      ELSE /\ Len(jobs'[n]) = Len(jobs[n]) + 1
                           /\ NodeIn(nodes', n).status = "running" ]_vars

\* a block queued while it ran has just been taken off the queue by its
\* effect after its job failed, and its second job is submitted
HeldRunsOnceWitness ==
    /\ last.op = "runQueueEffect"
    /\ last.held
    /\ \E n \in NodeIdSet :
          /\ NodeOf(n).status = "running"
          /\ jobs[n] = << [status |-> "failed", stream |-> "closed"],
                          [status |-> "submitting", stream |-> "none"] >>
          /\ ~Includes(nodesToRun, n)
          /\ drained[n] = 1

\* C38: deleteNode and deleteSelectedNodes leave the run queue as it is, so
\* the id of a deleted block that was queued is still in nodesToRun; no
\* effect of a block takes it off, only a requestRunForNodes does.
DeleteKeepsRunQueue ==
    [][ /\ last'.op \in {"deleteNode", "deleteSelectedNodes"} => nodesToRun' = nodesToRun
        /\ \A id \in Range(nodesToRun) \ NodeIdSet :
              Includes(nodesToRun', id) \/ RequestsRun ]_vars

\* the effect of a block has just taken the block off the queue, which still
\* holds the id of a block deleted while it was queued
DeleteKeepsRunQueueWitness ==
    /\ last.op = "runQueueEffect"
    /\ \E id \in Range(nodesToRun) : id \notin NodeIdSet
    /\ \E n \in NodeIdSet : drained[n] = 1 /\ ~Includes(nodesToRun, n)

\* the subscriptions of block n whose EventSource is open
OpenStreams(n) == { j \in DOMAIN jobs[n] : jobs[n][j].stream = "open" }

\* C39 as stated: at any time a block has at most one open stream
\* subscription, and every open subscription of the block is the one its
\* cleanup handle closes.
OneOpenStreamPerNode ==
    \A n \in NodeIds :
        /\ Cardinality(OpenStreams(n)) <= 1
        /\ \A j \in OpenStreams(n) : cleanupRef[n] = j

\* the positions of the node sequence ns held by the node with id s
PositionsOf(ns, s) == { i \in DOMAIN ns : ns[i].id = s }

\* C40: onConnect(s, t) with an edge s -> t already there and no cycle
\* resulting appends a second edge with the same id edge-s-t, so the edges
\* are one more than before; the inputs read for t list s exactly once
\* however many edges s -> t there are.
ConnectDoesNotDeduplicate ==
    [][ /\ last'.op = "onConnect" =>
            \A s \in NodeIdSet, t \in NodeIdSet :
               ( /\ OnConnect(s, t)
                 /\ ~WouldCreateCycle(s, t)
                 /\ \E i \in DOMAIN edges : edges[i].source = s /\ edges[i].target = t )
               => /\ Len(edges') = Len(edges) + 1
                  /\ SubSeq(edges', 1, Len(edges)) = edges
                  /\ \E i \in DOMAIN edges :
                        EdgeId(edges'[Len(edges')]) = EdgeId(edges[i])
                  /\ edges'[Len(edges')].source = s
                  /\ edges'[Len(edges')].target = t
        /\ last'.op = "getInputBlockContent" =>
            \A s \in NodeIdSet :
               (\E i \in DOMAIN edges : edges[i].source = s /\ edges[i].target = last'.node)
               => Cardinality(PositionsOf(last'.blocks, s)) = 1 ]_vars

\* two edges s -> t with the same id are in the store and the inputs of t
\* have just been read, listing s once
ConnectDoesNotDeduplicateWitness ==
    /\ last.op = "getInputBlockContent"
    /\ \E i \in DOMAIN edges, k \in DOMAIN edges :
          /\ i # k
          /\ EdgeId(edges[i]) = EdgeId(edges[k])
          /\ edges[i].target = last.node
          /\ Cardinality(PositionsOf(last.blocks, edges[i].source)) = 1
          /\ Len(last.blocks) = 1
====
